---- MODULE Spec2Model ----
(***************************************************************************)
(* nr: ranking of the script list (src/sort.rs, src/fuzzy.rs), the bounded *)
(* recency store with its frecency score (src/store/recents.rs), and the   *)
(* sessions of main() that load and save the favorites and the store       *)
(* (src/main.rs, src/app.rs, src/store/favorites.rs).                      *)
(*                                                                         *)
(* Time.  Timestamps are u64 milliseconds in the program.  Here a          *)
(* timestamp is a whole number of half-lives (14 days = 1 209 600 000 ms)  *)
(* since the Unix epoch, so that `age_in_days / halflife` is the integer   *)
(* `now - last_run` and 0.5^(age_in_days / halflife) is an exact power of  *)
(* two.  BaseTime = 1400 half-lives is September 2023.                     *)
(*                                                                         *)
(* Scores.  frecency_score returns an f64.  The model returns              *)
(*     E = 2 ^ (score * 2^MaxAge)                                          *)
(* which is an integer for the inputs drawn here and strictly increasing   *)
(* in the score, so every comparison of two scores is the comparison of    *)
(* their images.  The f64 value 0.0 has image 1 and negative infinity has  *)
(* image 0; NaN, which compares with nothing, is the value -1.             *)
(*                                                                         *)
(* Counts.  A use count is a u32.  It is held as its 32-bit pattern read   *)
(* as a signed integer: 0 .. 2^31 - 1 stand for themselves and u32::MAX    *)
(* = 2^32 - 1 is -1.                                                       *)
(***************************************************************************)
EXTENDS Integers, Sequences, FiniteSets, TLC

VARIABLES
    scripts,            \* &[SortableScript]: sequence of [key, name]
    favorites,          \* HashSet<String> of keys
    recents,            \* Vec<RecentEntry>: sequence of [key, last_run, count]
    query,              \* &str: "" or a non-empty pattern
    matcher,            \* Pattern::score for the current query: name -> Option<u32>
    now,                \* the system clock, in half-lives since the epoch
    filtered_indices,   \* Vec<usize> returned by sort_scripts
    disk,               \* the project directory: favorites.json, recents.json
    args_history,       \* ArgsHistory: [entries], most recent first
    app,                \* the other fields of App: tabs, selections, wizard
    op                  \* the last operation performed and what it observed

vars == <<scripts, favorites, recents, query, matcher, now, filtered_indices, disk,
          args_history, app, op>>

----------------------------------------------------------------------------
(* Bounds of the model *)

MaxScripts == 3      \* longest script list passed to sort_scripts
MaxRecs == 2         \* longest recents list passed to sort_scripts
MaxCount == 2        \* largest use count of a stored record at start
MaxAge == 1          \* clock range above BaseTime, in half-lives
MaxFuzzy == 2        \* largest relevance score the matcher returns
BaseTime == 1400     \* earliest "present" clock value, in half-lives
MaxCalls == 2        \* record_execution calls per session
MaxNewKeys == 2      \* keys never seen before that a session may run
MaxSessions == 2     \* runs of the program, one after the other
MaxKeys == 2         \* key presses a session handles before the one that ends it

(* Program constants *)

MAX_RECENTS == 100   \* recents.rs:12
UnderflowAge == 1075 \* 0.5_f64.powf(x) is 0.0 for every x >= 1075
ZeroScore == 1       \* image of the f64 0.0 (unwrap_or(0.0))
NegInf == 0          \* image of f64::NEG_INFINITY = log2(0.0)
NaN == -1            \* f64::NAN = NEG_INFINITY * 0.0
U32_MAX == -1        \* u32::MAX, the largest `count`, as a 32-bit pattern

----------------------------------------------------------------------------
(* Helpers standing for the Rust standard library *)

Pow2(e) == 2 ^ e

Front(s) == SubSeq(s, 1, Len(s) - 1)
Last(s) == s[Len(s)]
Range(s) == {s[i] : i \in 1..Len(s)}

\* Ord::cmp on integers and on the images of f64 values other than NaN
cmp(a, b) == IF a < b THEN "Less" ELSE IF a > b THEN "Greater" ELSE "Equal"

\* f64::partial_cmp: None when either value is NaN
partial_cmp(a, b) == IF a = NaN \/ b = NaN THEN "None" ELSE cmp(a, b)

\* Option<Ordering>::unwrap_or
unwrap_or(o, default) == IF o = "None" THEN default ELSE o

\* String::cmp: byte-wise lexicographic order; a name is its sequence of bytes
RECURSIVE str_cmp(_, _)
str_cmp(a, b) ==
    IF a = <<>> /\ b = <<>> THEN "Equal"
    ELSE IF a = <<>> THEN "Less"
    ELSE IF b = <<>> THEN "Greater"
    ELSE IF Head(a) < Head(b) THEN "Less"
    ELSE IF Head(a) > Head(b) THEN "Greater"
    ELSE str_cmp(Tail(a), Tail(b))

\* slice::sort_by: a stable sort.  `ord` maps a pair <<a, b>> to the Ordering
\* the comparator closure returns for (a, b).
RECURSIVE InsertSorted(_, _, _)
InsertSorted(sorted, x, ord) ==
    IF sorted = <<>> \/ ord[<<x, Last(sorted)>>] # "Less"
    THEN Append(sorted, x)
    ELSE Append(InsertSorted(Front(sorted), x, ord), Last(sorted))

RECURSIVE sort_by(_, _)
sort_by(v, ord) ==
    IF v = <<>> THEN <<>>
    ELSE InsertSorted(sort_by(Front(v), ord), Last(v), ord)

----------------------------------------------------------------------------
(* src/store/recents.rs *)

\* the distance between the two times instead of the clamped difference
MutSaturatingSubDistance(a, b) == IF a >= b THEN a - b ELSE b - a

\* u64::saturating_sub
saturating_sub(a, b) == IF a >= b THEN a - b ELSE 0

\* `count + 1` on a u32 overflows exactly when count is u32::MAX.  A build with
\* overflow checks (the dev profile) panics there; a build without them (the
\* release profile) wraps to 0.
add_overflows(count) == count = U32_MAX
wrapping_add(count) == IF count = U32_MAX THEN 0 ELSE count + 1

\* frecency_score(count, last_run_ms, now_ms), as the image E of the f64 score:
\*   score = (log2(count + 1) + 1) * 0.5^age,  age = now - last_run (clamped)
\*   E     = 2^(score * 2^MaxAge) = (2 * (count + 1)) ^ (2^(MaxAge - age))
\* and score = 0.0 (E = 1) once 0.5^age underflows.  When count + 1 wraps to
\* 0, log2(0.0) is negative infinity, and so is the score, unless 0.5^age is
\* 0.0: negative infinity times 0.0 is NaN.
frecency_score(count, last_run_ms, now_ms) ==
    LET age == saturating_sub(now_ms, last_run_ms)
        n == wrapping_add(count)
    IN  IF n = 0 THEN (IF age >= UnderflowAge THEN NaN ELSE NegInf)
        ELSE IF age >= UnderflowAge THEN ZeroScore
        ELSE (2 * n) ^ Pow2(MaxAge - age)

\* min_by keeping the last of several equal minima
MutMinByLast(scored) ==
    CHOOSE p \in scored :
        \A q \in scored :
            \/ cmp(q[2], p[2]) = "Greater"
            \/ (cmp(q[2], p[2]) = "Equal" /\ p[1] >= q[1])

\* Iterator::min_by on (index, score) pairs: it keeps the entry found so far
\* unless a later one compares Less, so it returns the first entry whose score
\* no entry undercuts (the scores of a store are never NaN: a stored count is
\* at least 1 and below u32::MAX)
min_by(scored) ==
    CHOOSE p \in scored :
        \A q \in scored :
            LET ord == unwrap_or(partial_cmp(q[2], p[2]), "Equal")
            IN  \/ ord = "Greater"
                \/ (ord = "Equal" /\ p[1] <= q[1])

\* recents.iter().enumerate().min_by(...): the index to evict
min_idx(recs, now_ms) ==
    min_by({<<i, frecency_score(recs[i].count, recs[i].last_run, now_ms)>> :
                i \in 1..Len(recs)})[1]

\* Vec::remove(index)
remove(v, i) == SubSeq(v, 1, i - 1) \o SubSeq(v, i + 1, Len(v))

\* record_execution evicting one insert too late (len > MAX_RECENTS + 1)
MutRecordExecutionLateEvict(recs, key, now_ms) ==
    LET found == {i \in 1..Len(recs) : recs[i].key = key}
        first == CHOOSE i \in found : \A j \in found : i <= j
        updated ==
            IF found # {}
            THEN [recs EXCEPT ![first] =
                    [key |-> @.key, last_run |-> now_ms, count |-> @.count + 1]]
            ELSE Append(recs, [key |-> key, last_run |-> now_ms, count |-> 1])
    IN  IF Len(updated) > MAX_RECENTS + 1
        THEN remove(updated, min_idx(updated, now_ms))
        ELSE updated

\* record_execution(recents, key) with the clock reading now_ms
record_execution(recs, key, now_ms) ==
    LET found == {i \in 1..Len(recs) : recs[i].key = key}
        first == CHOOSE i \in found : \A j \in found : i <= j
        updated ==
            IF found # {}
            THEN [recs EXCEPT ![first] =
                    [key |-> @.key, last_run |-> now_ms, count |-> wrapping_add(@.count)]]
            ELSE Append(recs, [key |-> key, last_run |-> now_ms, count |-> 1])
    IN  IF Len(updated) > MAX_RECENTS
        THEN remove(updated, min_idx(updated, now_ms))
        ELSE updated

----------------------------------------------------------------------------
(* Files and JSON (std::fs, serde_json) *)

\* a path of the project directory: no file there, a path that cannot be
\* opened (no permission, or a directory), or a file with its text
Missing == [kind |-> "missing"]
Unreadable == [kind |-> "unreadable"]
File(text) == [kind |-> "file", text |-> text]
NoDisk == [favorites |-> Missing, recents |-> Missing]

\* std::fs::write(path, text).ok(): an error is discarded
fs_write(file, text) == IF file.kind = "unreadable" THEN file ELSE File(text)

\* a JSON text is its sequence of tokens (white space left out); a number is
\* its decimal digits
Punct(c) == [t |-> "punct", v |-> c]
Str(str) == [t |-> "string", v |-> str]
Bool(b) == [t |-> "bool", v |-> b]

\* itoa: the decimal digits of an unsigned integer
RECURSIVE Digits(_)
Digits(n) == IF n < 10 THEN <<n>> ELSE Append(Digits(n \div 10), n % 10)

Num(n) == [t |-> "number", v |-> Digits(n)]

\* the unsigned integer a digit string denotes
RECURSIVE ParseNat(_)
ParseNat(ds) ==
    IF Len(ds) = 1 THEN ds[1] ELSE 10 * ParseNat(Front(ds)) + Last(ds)

\* #[derive(Serialize)] for RecentEntry: {"key": .., "last_run": .., "count": ..}
entry_to_json(e) ==
    << Punct("{"), Str("key"), Punct(":"), Str(e.key), Punct(","),
       Str("last_run"), Punct(":"), Num(e.last_run), Punct(","),
       Str("count"), Punct(":"), Num(e.count), Punct("}") >>

EntryLen == 13       \* tokens of one serialized RecentEntry

\* serde_json::to_string_pretty(&recents): [entry, entry, ...]
to_string_pretty(recs) ==
    IF recs = <<>> THEN <<Punct("["), Punct("]")>>
    ELSE [p \in 1..((EntryLen + 1) * Len(recs) + 1) |->
            IF p = 1 THEN Punct("[")
            ELSE IF p = (EntryLen + 1) * Len(recs) + 1 THEN Punct("]")
            ELSE IF (p - 2) % (EntryLen + 1) = EntryLen THEN Punct(",")
            ELSE entry_to_json(recs[((p - 2) \div (EntryLen + 1)) + 1])
                    [((p - 2) % (EntryLen + 1)) + 1]]

\* a token is the punctuation c, the string str
is_punct(tok, c) == tok.t = "punct" /\ tok.v = c
is_str(tok, str) == tok.t = "string" /\ tok.v = str

\* #[derive(Deserialize)] for RecentEntry, at the `{` in position b of the text
is_entry(text, b) ==
    /\ is_punct(text[b], "{") /\ is_str(text[b + 1], "key") /\ is_punct(text[b + 2], ":")
    /\ text[b + 3].t = "string" /\ is_punct(text[b + 4], ",")
    /\ is_str(text[b + 5], "last_run") /\ is_punct(text[b + 6], ":")
    /\ text[b + 7].t = "number" /\ is_punct(text[b + 8], ",")
    /\ is_str(text[b + 9], "count") /\ is_punct(text[b + 10], ":")
    /\ text[b + 11].t = "number" /\ is_punct(text[b + 12], "}")

\* entry_at taking every count as 1 instead of reading it
MutEntryAtCountReset(text, b) ==
    [key |-> text[b + 3].v,
     last_run |-> ParseNat(text[b + 7].v),
     count |-> 1]

\* the RecentEntry read from the object at position b
entry_at(text, b) ==
    [key |-> text[b + 3].v,
     last_run |-> ParseNat(text[b + 7].v),
     count |-> ParseNat(text[b + 11].v)]

\* serde_json::from_str::<Vec<RecentEntry>>(text): <<vec>> for Ok(vec), <<>>
\* for Err
from_str(text) ==
    LET n == (Len(text) - 1) \div (EntryLen + 1)
    IN  IF Len(text) = 2 /\ is_punct(text[1], "[") /\ is_punct(text[2], "]")
        THEN << <<>> >>
        ELSE IF /\ n >= 1 /\ Len(text) = (EntryLen + 1) * n + 1
                /\ is_punct(text[1], "[") /\ is_punct(text[Len(text)], "]")
                /\ \A r \in 0..(n - 1) :
                    /\ is_entry(text, 2 + (EntryLen + 1) * r)
                    /\ r < n - 1 =>
                        is_punct(text[2 + (EntryLen + 1) * r + EntryLen], ",")
        THEN << [r \in 1..n |-> entry_at(text, 2 + (EntryLen + 1) * (r - 1))] >>
        ELSE <<>>

\* load_recents keeping the records of a text that lacks its closing bracket
MutLoadRecentsSalvage(file) ==
    IF file.kind = "missing" THEN <<>>
    ELSE IF file.kind = "unreadable" THEN <<>>
    ELSE IF from_str(file.text) # <<>> THEN from_str(file.text)[1]
    ELSE IF from_str(Append(file.text, Punct("]"))) # <<>>
         THEN from_str(Append(file.text, Punct("]")))[1]
    ELSE <<>>

\* load_recents(config_dir), given the state of config_dir/recents.json
load_recents(file) ==
    IF file.kind = "missing" THEN <<>>
    ELSE IF file.kind = "unreadable" THEN <<>>
    ELSE IF from_str(file.text) # <<>> THEN from_str(file.text)[1]
    ELSE <<>>

\* save_recents(config_dir, recents): the new state of config_dir/recents.json
save_recents(file, recs) == fs_write(file, to_string_pretty(recs))

----------------------------------------------------------------------------
(* src/store/favorites.rs *)

\* toggle_favorite that never removes a key
MutToggleFavoriteOnlyAdds(favs, key) == favs \cup {key}

\* toggle_favorite(favorites, key): the set it leaves
toggle_favorite(favs, key) == IF key \in favs THEN favs \ {key} ELSE favs \cup {key}

\* toggle_favorite(favorites, key): the bool it returns
toggle_favorite_returns(favs, key) == IF key \in favs THEN FALSE ELSE TRUE

\* serde_json::to_string_pretty(&map) for the map key -> true built from the
\* set; `keys` is the sequence of its keys in the order of the map
favorites_to_json(keys) ==
    IF keys = <<>> THEN <<Punct("{"), Punct("}")>>
    ELSE [p \in 1..(4 * Len(keys) + 1) |->
            IF p = 1 THEN Punct("{")
            ELSE IF (p - 2) % 4 = 0 THEN Str(keys[((p - 2) \div 4) + 1])
            ELSE IF (p - 2) % 4 = 1 THEN Punct(":")
            ELSE IF (p - 2) % 4 = 2 THEN Bool(TRUE)
            ELSE IF p = 4 * Len(keys) + 1 THEN Punct("}")
            ELSE Punct(",")]

\* favorites_from_str without the filter on the value: every key of the
\* object is kept
MutFavoritesFromStrKeepsAll(text) ==
    LET n == (Len(text) - 1) \div 4
    IN  IF /\ n >= 1 /\ Len(text) = 4 * n + 1
           /\ is_punct(text[1], "{") /\ is_punct(text[Len(text)], "}")
        THEN {text[2 + 4 * r].v : r \in 0..(n - 1)}
        ELSE {}

\* serde_json::from_str::<Map<String, Value>>(text), then the keys whose value
\* is `true`; the empty set for a text that is no JSON object
favorites_from_str(text) ==
    LET n == (Len(text) - 1) \div 4
    IN  IF /\ n >= 1 /\ Len(text) = 4 * n + 1
           /\ is_punct(text[1], "{") /\ is_punct(text[Len(text)], "}")
           /\ \A r \in 0..(n - 1) :
                /\ text[2 + 4 * r].t = "string"
                /\ is_punct(text[3 + 4 * r], ":")
                /\ text[4 + 4 * r].t \in {"bool", "number", "string"}
                /\ r < n - 1 => is_punct(text[5 + 4 * r], ",")
        THEN {text[2 + 4 * r].v :
                r \in {q \in 0..(n - 1) :
                        text[4 + 4 * q].t = "bool" /\ text[4 + 4 * q].v}}
        ELSE {}

\* load_favorites(config_dir), given the state of config_dir/favorites.json
load_favorites(file) ==
    IF file.kind = "missing" THEN {}
    ELSE IF file.kind = "unreadable" THEN {}
    ELSE favorites_from_str(file.text)

----------------------------------------------------------------------------
(* src/fuzzy.rs *)

\* Option<u32> is a sequence of length 0 (None) or 1 (Some(score))
pattern_score(name) == matcher[name]

\* fuzzy_filter keeping the items the pattern does not match, as score 0
MutFuzzyFilterKeepsUnmatched(items, q) ==
    IF q = "" THEN [i \in 1..Len(items) |-> i - 1]
    ELSE LET scored == [i \in 1..Len(items) |-> i - 1]
             sc(i) == IF pattern_score(items[i + 1].name) = <<>> THEN 0
                      ELSE pattern_score(items[i + 1].name)[1]
             ord == [p \in Range(scored) \X Range(scored) |-> cmp(sc(p[2]), sc(p[1]))]
         IN  sort_by(scored, ord)

\* fuzzy_filter(items, query, |s| &s.name): 0-based indices of the matched
\* items, best score first, equal scores in input order (stable sort)
fuzzy_filter(items, q) ==
    IF q = "" THEN [i \in 1..Len(items) |-> i - 1]
    ELSE LET scored == SelectSeq([i \in 1..Len(items) |-> i - 1],
                          LAMBDA i : pattern_score(items[i + 1].name) # <<>>)
             sc(i) == pattern_score(items[i + 1].name)[1]
             ord == [p \in Range(scored) \X Range(scored) |-> cmp(sc(p[2]), sc(p[1]))]
         IN  sort_by(scored, ord)

----------------------------------------------------------------------------
(* src/sort.rs *)

\* the recent_scores HashMap: a later entry of the same key replaces an earlier
\* one; .get(key).copied().unwrap_or(0.0)
recent_score(recs, key, now_ms) ==
    LET hits == {i \in 1..Len(recs) : recs[i].key = key}
    IN  IF hits = {} THEN ZeroScore
        ELSE LET e == recs[CHOOSE i \in hits : \A j \in hits : j <= i]
             IN  frecency_score(e.count, e.last_run, now_ms)

\* no_query_cmp without the favorites-first arms
MutNoQueryCmpNoFavorites(items, favs, recs, now_ms, a, b) ==
    LET script_a == items[a + 1]
        script_b == items[b + 1]
        score_a == recent_score(recs, script_a.key, now_ms)
        score_b == recent_score(recs, script_b.key, now_ms)
    IN  IF cmp(score_b, score_a) # "Equal" THEN cmp(score_b, score_a)
        ELSE str_cmp(script_a.name, script_b.name)

\* no_query_cmp whose (true, true) arm falls through to the recency comparison
MutNoQueryCmpFavsFallThrough(items, favs, recs, now_ms, a, b) ==
    LET script_a == items[a + 1]
        script_b == items[b + 1]
        is_fav_a == script_a.key \in favs
        is_fav_b == script_b.key \in favs
        score_a == recent_score(recs, script_a.key, now_ms)
        score_b == recent_score(recs, script_b.key, now_ms)
    IN  IF is_fav_a /\ ~is_fav_b THEN "Less"
        ELSE IF ~is_fav_a /\ is_fav_b THEN "Greater"
        ELSE IF cmp(score_b, score_a) # "Equal" THEN cmp(score_b, score_a)
        ELSE str_cmp(script_a.name, script_b.name)

\* the comparator closure of sort_scripts_no_query
no_query_cmp(items, favs, recs, now_ms, a, b) ==
    LET script_a == items[a + 1]
        script_b == items[b + 1]
        is_fav_a == script_a.key \in favs
        is_fav_b == script_b.key \in favs
        score_a == recent_score(recs, script_a.key, now_ms)
        score_b == recent_score(recs, script_b.key, now_ms)
    IN  IF is_fav_a /\ ~is_fav_b THEN "Less"
        ELSE IF ~is_fav_a /\ is_fav_b THEN "Greater"
        ELSE IF is_fav_a /\ is_fav_b THEN str_cmp(script_a.name, script_b.name)
        ELSE IF partial_cmp(score_b, score_a) \notin {"Equal", "None"}
             THEN partial_cmp(score_b, score_a)
        ELSE str_cmp(script_a.name, script_b.name)

\* sort_scripts_no_query starting from the range 1..len instead of 0..len
MutNoQuerySkipsFirst(items, favs, recs, now_ms) ==
    LET indices == [i \in 1..(Len(items) - 1) |-> i]
        ord == [p \in Range(indices) \X Range(indices) |->
                    no_query_cmp(items, favs, recs, now_ms, p[1], p[2])]
    IN  sort_by(indices, ord)

sort_scripts_no_query(items, favs, recs, now_ms) ==
    LET indices == [i \in 1..Len(items) |-> i - 1]
        ord == [p \in Range(indices) \X Range(indices) |->
                    no_query_cmp(items, favs, recs, now_ms, p[1], p[2])]
    IN  sort_by(indices, ord)

\* with_query_cmp comparing the scores the wrong way round (score_a with score_b)
MutWithQueryCmpScoreAscending(items, favs, recs, now_ms, a, b) ==
    LET script_a == items[a + 1]
        script_b == items[b + 1]
        is_fav_a == script_a.key \in favs
        is_fav_b == script_b.key \in favs
        score_a == recent_score(recs, script_a.key, now_ms)
        score_b == recent_score(recs, script_b.key, now_ms)
    IN  IF is_fav_a /\ ~is_fav_b THEN "Less"
        ELSE IF ~is_fav_a /\ is_fav_b THEN "Greater"
        ELSE cmp(score_a, score_b)

\* with_query_cmp with the alphabetical fallback of the no-query comparator
MutWithQueryCmpAlphabetical(items, favs, recs, now_ms, a, b) ==
    LET script_a == items[a + 1]
        script_b == items[b + 1]
        is_fav_a == script_a.key \in favs
        is_fav_b == script_b.key \in favs
        score_a == recent_score(recs, script_a.key, now_ms)
        score_b == recent_score(recs, script_b.key, now_ms)
    IN  IF is_fav_a /\ ~is_fav_b THEN "Less"
        ELSE IF ~is_fav_a /\ is_fav_b THEN "Greater"
        ELSE IF cmp(score_b, score_a) # "Equal" THEN cmp(score_b, score_a)
        ELSE str_cmp(script_a.name, script_b.name)

\* the comparator closure of sort_scripts_with_query
with_query_cmp(items, favs, recs, now_ms, a, b) ==
    LET script_a == items[a + 1]
        script_b == items[b + 1]
        is_fav_a == script_a.key \in favs
        is_fav_b == script_b.key \in favs
        score_a == recent_score(recs, script_a.key, now_ms)
        score_b == recent_score(recs, script_b.key, now_ms)
    IN  IF is_fav_a /\ ~is_fav_b THEN "Less"
        ELSE IF ~is_fav_a /\ is_fav_b THEN "Greater"
        ELSE unwrap_or(partial_cmp(score_b, score_a), "Equal")

sort_scripts_with_query(items, favs, recs, now_ms, q) ==
    LET matched == fuzzy_filter(items, q)
        ord == [p \in Range(matched) \X Range(matched) |->
                    with_query_cmp(items, favs, recs, now_ms, p[1], p[2])]
    IN  sort_by(matched, ord)

sort_scripts(items, favs, recs, now_ms, q) ==
    IF q = "" THEN sort_scripts_no_query(items, favs, recs, now_ms)
    ELSE sort_scripts_with_query(items, favs, recs, now_ms, q)

----------------------------------------------------------------------------
(* Inputs of the ranking *)

\* the scripts of one manifest; a name is its byte string ("b", "a", "ab")
PoolSeq ==
    << [key |-> "root:b", name |-> <<98>>],
       [key |-> "root:a", name |-> <<97>>],
       [key |-> "root:ab", name |-> <<97, 98>>] >>

ScriptPool == Range(PoolSeq)
Names == {s.name : s \in ScriptPool}
PoolIndex(k) == CHOOSE n \in 1..Len(PoolSeq) : PoolSeq[n].key = k

ScriptLists ==
    { s \in UNION {[1..n -> ScriptPool] : n \in 0..MaxScripts} :
        \A i, j \in 1..Len(s) : i # j => s[i] # s[j] }

\* clock values: the present (BaseTime, BaseTime + MaxAge) and, for a record
\* written while the clock stood at the epoch, 0
Clock == {BaseTime, BaseTime + MaxAge}
Counts == 1..MaxCount

RecentEntry(keys) ==
    [key : keys, last_run : Clock, count : Counts]
        \cup [key : keys, last_run : {0}, count : {1}]

\* recents lists over `keys`, one record per key at most.  The keys being
\* distinct, the order of the records does not change the scores looked up, and
\* each set of records is listed in one order.
RecentLists(keys) ==
    { r \in UNION {[1..n -> RecentEntry(keys)] : n \in 0..MaxRecs} :
        \A i, j \in 1..Len(r) : i < j => PoolIndex(r[i].key) < PoolIndex(r[j].key) }

NoMatcher == [n \in Names |-> <<>>]

\* the score tables of the matcher for one query.  The ranking only compares
\* relevance scores, so the tables are listed up to the order of their scores:
\* the scores in use are 1..k for some k <= MaxFuzzy.
Matchers ==
    { m \in [Names -> {<<>>} \cup {<<s>> : s \in 1..MaxFuzzy}] :
        \A s \in 2..MaxFuzzy :
            (\E n \in Names : m[n] = <<s>>) => (\E n \in Names : m[n] = <<s - 1>>) }

Idle == [name |-> "start"]

\* ArgsHistory::default(), and the App fields of a run that builds no App
NoHistory == [entries |-> <<>>]
NoApp == [mode |-> "none"]

SortInit ==
    /\ scripts \in ScriptLists
    /\ favorites \in SUBSET {scripts[i].key : i \in 1..Len(scripts)}
    /\ recents \in RecentLists({scripts[i].key : i \in 1..Len(scripts)})
    /\ query \in {"", "q"}
    /\ matcher \in (IF query = "" THEN {NoMatcher} ELSE Matchers)
    /\ now = BaseTime
    /\ filtered_indices = <<>>
    /\ disk = NoDisk
    /\ args_history = NoHistory
    /\ app = NoApp
    /\ op = Idle

\* sort_scripts(&scripts, &favorites, &recents, &query); it reads the clock
SortScripts ==
    /\ op.name = "start"
    /\ \E t \in Clock :
        /\ now' = t
        /\ filtered_indices' = sort_scripts(scripts, favorites, recents, t, query)
    /\ op' = [name |-> "sort_scripts"]
    /\ UNCHANGED <<args_history, app>>
    /\ UNCHANGED <<scripts, favorites, recents, query, matcher, disk>>

SortNext == SortScripts

SpecSort == SortInit /\ [][SortNext]_vars

----------------------------------------------------------------------------
(* The recency store over a session: load_recents, then record_execution calls *)

\* a store saved by an earlier session: n records with distinct keys 1..n, all
\* with the profile `bulk` except the record at index `at` (0: none)
SavedStore(n, bulk, at, special) ==
    [i \in 1..n |->
        [key |-> i,
         last_run |-> IF i = at THEN special.last_run ELSE bulk.last_run,
         count |-> IF i = at THEN special.count ELSE bulk.count]]

Profiles == [last_run : Clock, count : Counts] \cup [last_run : {0}, count : {1}]

\* load_recents: the empty Vec (no file, unreadable or unparsable file), or the
\* records an earlier session saved
LoadedStores ==
    {<<>>} \cup
    { SavedStore(n, b, at, s) :
        n \in {MAX_RECENTS - 1, MAX_RECENTS},
        b \in Profiles,
        at \in {0, 1, MAX_RECENTS \div 2, MAX_RECENTS},
        s \in Profiles }

\* keys a session runs: some stored ones and some never seen before
RunKeys == {1, MAX_RECENTS} \cup ((MAX_RECENTS + 1)..(MAX_RECENTS + MaxNewKeys))

RecentsInit ==
    /\ recents \in LoadedStores
    /\ now = BaseTime
    /\ scripts = <<>>
    /\ favorites = {}
    /\ query = ""
    /\ matcher = NoMatcher
    /\ filtered_indices = <<>>
    /\ disk = NoDisk
    /\ args_history = NoHistory
    /\ app = NoApp
    /\ op = [name |-> "load_recents", calls |-> 0]

\* record_execution(&mut recents, key); it reads the clock
RecordExecution(key) ==
    /\ op.calls < MaxCalls
    /\ \E t \in Clock :
        /\ now' = t
        /\ recents' = record_execution(recents, key, t)
    /\ op' = [name |-> "record_execution", calls |-> op.calls + 1, key |-> key,
              existed |-> \E i \in 1..Len(recents) : recents[i].key = key,
              len_before |-> Len(recents)]
    /\ UNCHANGED <<args_history, app>>
    /\ UNCHANGED <<scripts, favorites, query, matcher, filtered_indices, disk>>

RecentsNext == \E key \in RunKeys : RecordExecution(key)

SpecRecents == RecentsInit /\ [][RecentsNext]_vars

----------------------------------------------------------------------------
(* frecency_score as a function of its arguments: two records scored against *)
(* one clock reading, as the closure of min_by scores `a` and `b`            *)

\* u32 `<` on 32-bit patterns
u32_lt(a, b) == IF (a < 0) = (b < 0) THEN a < b ELSE b < 0

\* arguments: every small count, 0 included, and u32::MAX; a last_run at the
\* epoch, at BaseTime or at BaseTime + MaxAge, which is in the future of a clock
\* that reads BaseTime
ScoredCounts == (0..(MaxCount + 1)) \cup {U32_MAX}
ScoredTimes == {0} \cup Clock
ScoredEntry == [key : {1}, last_run : ScoredTimes, count : ScoredCounts]

FrecencyInit ==
    /\ recents \in [1..2 -> ScoredEntry]
    /\ now \in Clock
    /\ scripts = <<>>
    /\ favorites = {}
    /\ query = ""
    /\ matcher = NoMatcher
    /\ filtered_indices = <<>>
    /\ disk = NoDisk
    /\ args_history = NoHistory
    /\ app = NoApp
    /\ op = Idle

\* one call: <<score>> when it returns, <<>> when `count + 1` panics
frecency_call(count, last_run_ms, now_ms, overflow_checks) ==
    IF overflow_checks /\ add_overflows(count) THEN <<>>
    ELSE <<frecency_score(count, last_run_ms, now_ms)>>

\* frecency_score(a.count, a.last_run, now_ms) and the same for b, in a build
\* with or without overflow checks
FrecencyScore(overflow_checks) ==
    /\ op.name = "start"
    /\ op' = [name |-> "frecency_score",
              overflow_checks |-> overflow_checks,
              results |-> [i \in 1..2 |->
                    frecency_call(recents[i].count, recents[i].last_run, now,
                                  overflow_checks)]]
    /\ UNCHANGED <<args_history, app>>
    /\ UNCHANGED <<scripts, favorites, recents, query, matcher, now, filtered_indices,
                   disk>>

FrecencyNext == \E overflow_checks \in BOOLEAN : FrecencyScore(overflow_checks)

SpecFrecency == FrecencyInit /\ [][FrecencyNext]_vars

----------------------------------------------------------------------------
(* Sessions: main() builds the App from the project directory, handles key *)
(* presses, and ends on Action::Quit or Action::RunScript                  *)

\* a name as a String
name_str(name) ==
    IF name = <<98>> THEN "b"
    ELSE IF name = <<97>> THEN "a"
    ELSE IF name = <<97, 98>> THEN "ab"
    ELSE "app"

\* the elements of a finite set in some order (the iteration order of a HashSet, the
\* order of the entries fs::read_dir gives)
RECURSIVE entries_of(_)
entries_of(set) ==
    IF set = {} THEN <<>>
    ELSE LET x == CHOOSE y \in set : TRUE IN <<x>> \o entries_of(set \ {x})

\* the bytes of a key: those of its owner ("root" or the package "app"), a
\* colon, those of the script name
key_bytes(k) ==
    LET owners == {[str |-> "root", bytes |-> <<114, 111, 111, 116>>],
                   [str |-> "app", bytes |-> <<97, 112, 112>>]}
        c == CHOOSE c \in owners \X Names : c[1].str \o ":" \o name_str(c[2]) = k
    IN  c[1].bytes \o <<58>> \o c[2]

\* the keys of a favorites set in the order of the serialized map (by key)
map_keys(favs) ==
    LET ord == [p \in favs \X favs |-> str_cmp(key_bytes(p[1]), key_bytes(p[2]))]
    IN  sort_by(entries_of(favs), ord)

\* save_favorites(config_dir, favorites): the new state of favorites.json
save_favorites(file, favs) == fs_write(file, favorites_to_json(map_keys(favs)))

\* a text that is not JSON
Garbage == <<[t |-> "garbage", v |-> "not valid json"]>>

\* a favorites.json edited by hand: one key mapped to false, one to a number,
\* one to true
MixedFavorites ==
    <<Punct("{"), Str(PoolSeq[2].key), Punct(":"), Bool(FALSE), Punct(","),
      Str(PoolSeq[3].key), Punct(":"), Num(1), Punct(","),
      Str(PoolSeq[1].key), Punct(":"), Bool(TRUE), Punct("}")>>

\* favorites.json before the first session: absent, not to be opened, not
\* JSON, or an object with one key, mapped to true or (edited by hand) to
\* false, or the object edited by hand
FavoritesFiles ==
    {Missing, Unreadable, File(Garbage),
     File(favorites_to_json(<<PoolSeq[2].key>>)),
     File(<<Punct("{"), Str(PoolSeq[2].key), Punct(":"), Bool(FALSE), Punct("}")>>),
     File(MixedFavorites)}

\* the stores an earlier session may have saved
SessionStores ==
    {r \in RecentLists({PoolSeq[1].key, PoolSeq[2].key}) :
        \A i \in 1..Len(r) : r[i].last_run = BaseTime}

\* recents.json before the first session: absent, not to be opened, not JSON,
\* cut short before its closing bracket, or as an earlier session saved it
BrokenRecentsFiles ==
    {Missing, Unreadable, File(Garbage)}
        \cup {File(Front(to_string_pretty(r))) : r \in SessionStores}

RecentsFiles == BrokenRecentsFiles \cup {File(to_string_pretty(r)) : r \in SessionStores}

SessionInit ==
    /\ disk \in [favorites : FavoritesFiles, recents : RecentsFiles]
    /\ scripts = PoolSeq
    /\ favorites = {}
    /\ recents = <<>>
    /\ query = ""
    /\ matcher = NoMatcher
    /\ now = BaseTime
    /\ filtered_indices = <<>>
    /\ args_history = NoHistory
    /\ app = NoApp
    /\ op = [name |-> "boot", session |-> 0, keys |-> 0]

\* the event loop of main() is running
Running == op.name \in {"new", "toggle_fav"}

\* the clock never runs backwards within the sessions modelled
Later == {t \in Clock : t >= now}

\* App::new: load_favorites, load_recents, the initial sort_scripts.  `left`
\* keeps what the previous session held in memory when it ended.
AppNew ==
    /\ ~Running
    /\ op.session < MaxSessions
    /\ \E t \in Later :
        /\ now' = t
        /\ favorites' = load_favorites(disk.favorites)
        /\ recents' = load_recents(disk.recents)
        /\ filtered_indices' = sort_scripts(scripts, favorites', recents', t, "")
    /\ query' = ""
    /\ op' = [name |-> "new", session |-> op.session + 1, keys |-> 0,
              left |-> [name |-> op.name, favorites |-> favorites, recents |-> recents]]
    /\ UNCHANGED <<args_history, app>>
    /\ UNCHANGED <<scripts, matcher, disk>>

\* KeyCode::Char(' ') on the item at position p: App::toggle_fav
ToggleFav(p) ==
    /\ Running
    /\ op.keys < MaxKeys
    /\ p \in 1..Len(filtered_indices)
    /\ LET key == scripts[filtered_indices[p] + 1].key
       IN  /\ favorites' = toggle_favorite(favorites, key)
           /\ \E t \in Later :
                /\ now' = t
                /\ filtered_indices' = sort_scripts(scripts, favorites', recents, t, query)
           /\ op' = [name |-> "toggle_fav", session |-> op.session,
                     keys |-> op.keys + 1, key |-> key, before |-> favorites,
                     returned |-> toggle_favorite_returns(favorites, key)]
    /\ UNCHANGED <<args_history, app>>
    /\ UNCHANGED <<scripts, recents, query, matcher, disk>>

\* KeyCode::Enter on the item at position p: App::handle_enter records the
\* execution and returns Action::RunScript; main() leaves the loop, saves
\* favorites and recents, runs the script and exits
RunScript(p) ==
    /\ Running
    /\ p \in 1..Len(filtered_indices)
    /\ LET key == scripts[filtered_indices[p] + 1].key
       IN  /\ \E t \in Later :
                /\ now' = t
                /\ recents' = record_execution(recents, key, t)
           /\ disk' = [favorites |-> save_favorites(disk.favorites, favorites),
                       recents |-> save_recents(disk.recents, recents')]
           /\ op' = [name |-> "run_script", session |-> op.session,
                     keys |-> op.keys, key |-> key]
    /\ UNCHANGED <<args_history, app>>
    /\ UNCHANGED <<scripts, favorites, query, matcher, filtered_indices>>

\* KeyCode::Esc or Ctrl+C: Action::Quit; main() leaves the loop and returns
Quit ==
    /\ Running
    /\ op' = [name |-> "quit", session |-> op.session, keys |-> op.keys]
    /\ UNCHANGED <<args_history, app>>
    /\ UNCHANGED <<scripts, favorites, recents, query, matcher, now, filtered_indices,
                   disk>>

SessionNext ==
    \/ AppNew
    \/ \E p \in 1..Len(PoolSeq) : ToggleFav(p)
    \/ \E p \in 1..Len(PoolSeq) : RunScript(p)
    \/ Quit

SpecSession == SessionInit /\ [][SessionNext]_vars

----------------------------------------------------------------------------
(* src/store/args_history.rs; an argument string is its byte string *)

MAX_HISTORY_ENTRIES == 20

\* char::is_whitespace on the bytes in use: tab, line feed, space
is_whitespace(c) == c \in {9, 10, 32}

\* str::trim
RECURSIVE trim(_)
trim(str) ==
    IF str = <<>> THEN <<>>
    ELSE IF is_whitespace(str[1]) THEN trim(Tail(str))
    ELSE IF is_whitespace(str[Len(str)]) THEN trim(Front(str))
    ELSE str

\* add_entry that leaves an earlier copy of the entry in the list
MutAddEntryKeepsDuplicate(history, entry) ==
    IF trim(entry) = <<>> THEN history
    ELSE LET inserted == <<entry>> \o history.entries
         IN  [entries |-> IF Len(inserted) > MAX_HISTORY_ENTRIES
                          THEN SubSeq(inserted, 1, MAX_HISTORY_ENTRIES)
                          ELSE inserted]

\* ArgsHistory::add_entry(&mut self, entry)
add_entry(history, entry) ==
    IF trim(entry) = <<>> THEN history
    ELSE LET retained == SelectSeq(history.entries, LAMBDA e : e # entry)
             inserted == <<entry>> \o retained
         IN  [entries |-> IF Len(inserted) > MAX_HISTORY_ENTRIES
                          THEN SubSeq(inserted, 1, MAX_HISTORY_ENTRIES)
                          ELSE inserted]

\* the history after the n entries "n", .., "2", "1" (one byte each, starting
\* at "0" + 1) were added to an empty history in that order
Filled(n) == [entries |-> [i \in 1..n |-> <<48 + i>>]]

\* histories that add_entry calls have built: empty, one short of the cap, at
\* the cap
HistoryStarts == {NoHistory, Filled(MAX_HISTORY_ENTRIES - 1), Filled(MAX_HISTORY_ENTRIES)}

\* entries to add: empty, blank, the first, a middle and the last entry of a
\* filled history, "x", "x " and " x"
EntryPool ==
    {<<>>, <<32>>, <<9, 32>>, <<49>>, <<53>>, <<48 + MAX_HISTORY_ENTRIES>>,
     <<120>>, <<120, 32>>, <<32, 120>>}

\* `added` is the non-blank entry added last, as an Option
ArgsHistoryInit ==
    /\ args_history \in HistoryStarts
    /\ scripts = <<>>
    /\ favorites = {}
    /\ recents = <<>>
    /\ query = ""
    /\ matcher = NoMatcher
    /\ now = BaseTime
    /\ filtered_indices = <<>>
    /\ disk = NoDisk
    /\ app = NoApp
    /\ op = [name |-> "new", calls |-> 0,
             added |-> IF args_history.entries = <<>> THEN <<>>
                       ELSE <<args_history.entries[1]>>]

\* history.add_entry(entry)
AddEntry(entry) ==
    /\ op.calls < MaxCalls
    /\ args_history' = add_entry(args_history, entry)
    /\ op' = [name |-> "add_entry", calls |-> op.calls + 1, entry |-> entry,
              added |-> IF trim(entry) = <<>> THEN op.added ELSE <<entry>>]
    /\ UNCHANGED <<scripts, favorites, recents, query, matcher, now, filtered_indices,
                   disk, app>>

ArgsHistoryNext == \E entry \in EntryPool : AddEntry(entry)

SpecArgsHistory == ArgsHistoryInit /\ [][ArgsHistoryNext]_vars

----------------------------------------------------------------------------
(* src/core/env_files.rs; a line of a file is its byte string *)

\* the bytes of the file names found in the directories of the model
name_bytes(name) ==
    IF name = ".env" THEN <<46, 101, 110, 118>>
    ELSE IF name = ".env.local" THEN <<46, 101, 110, 118, 46, 108, 111, 99, 97, 108>>
    ELSE <<112, 97, 99, 107, 97, 103, 101, 46, 106, 115, 111, 110>>

\* str::starts_with
starts_with(str, prefix) ==
    Len(str) >= Len(prefix) /\ SubSeq(str, 1, Len(prefix)) = prefix

\* Path::join
join(dir, name) == dir \o "/" \o name

\* the .env* files of one directory, sorted by display name
env_files_in(dir, scope, listing) ==
    LET found == SelectSeq(entries_of(listing),
                           LAMBDA name : starts_with(name_bytes(name), name_bytes(".env")))
        files == [i \in 1..Len(found) |->
                    [path |-> join(dir, found[i]), display_name |-> found[i],
                     scope |-> scope]]
        ord == [p \in Range(files) \X Range(files) |->
                    str_cmp(name_bytes(p[1].display_name), name_bytes(p[2].display_name))]
    IN  sort_by(files, ord)

\* scan_env_files(cwd, monorepo_root); `dirs` gives the entries of each
\* directory, monorepo_root is an Option
scan_env_files(cwd, monorepo_root, dirs) ==
    [package_files |-> env_files_in(cwd, "Package", dirs[cwd]),
     root_files |-> IF monorepo_root # <<>> /\ monorepo_root[1] # cwd
                    THEN env_files_in(monorepo_root[1], "Root", dirs[monorepo_root[1]])
                    ELSE <<>>]

\* EnvFileList::all_files: package files, then root files
all_files(list) == list.package_files \o list.root_files

\* EnvFileList::all_files_merge_order: root files, then package files
all_files_merge_order(list) == list.root_files \o list.package_files

\* str::split_once('='): the index of the first '=', 0 when there is none
first_eq(str) ==
    IF \E i \in 1..Len(str) : str[i] = 61
    THEN CHOOSE i \in 1..Len(str) : str[i] = 61 /\ \A j \in 1..(i - 1) : str[j] # 61
    ELSE 0

\* value.strip_prefix(q).and_then(|v| v.strip_suffix(q)), as an Option
strip_quotes(value, q) ==
    IF value # <<>> /\ value[1] = q
    THEN LET rest == Tail(value)
         IN  IF rest # <<>> /\ rest[Len(rest)] = q THEN <<Front(rest)>> ELSE <<>>
    ELSE <<>>

\* the HashMap the lines so far give, extended by one line
parse_line(map, line) ==
    LET trimmed == trim(line)
        at == first_eq(trimmed)
    IN  IF trimmed = <<>> \/ trimmed[1] = 35 THEN map
        ELSE IF at = 0 THEN map
        ELSE LET key == trim(SubSeq(trimmed, 1, at - 1))
                 raw == trim(SubSeq(trimmed, at + 1, Len(trimmed)))
                 value == IF strip_quotes(raw, 34) # <<>> THEN strip_quotes(raw, 34)[1]
                          ELSE IF strip_quotes(raw, 39) # <<>> THEN strip_quotes(raw, 39)[1]
                          ELSE raw
             IN  IF key = <<>> THEN map ELSE (key :> value) @@ map

\* load_single_env_file on the lines of a file that could be read
RECURSIVE load_single_env_file(_)
load_single_env_file(lines) ==
    IF lines = <<>> THEN <<>>
    ELSE parse_line(load_single_env_file(Front(lines)), Last(lines))

\* load_env_files that keeps the value of the first file that sets a variable
RECURSIVE MutLoadEnvFilesFirstWins(_, _, _)
MutLoadEnvFilesFirstWins(env_file_paths, contents, readable) ==
    IF env_file_paths = <<>> THEN <<>>
    ELSE LET merged == MutLoadEnvFilesFirstWins(Front(env_file_paths), contents, readable)
             path == Last(env_file_paths)
         IN  IF path \in readable
             THEN merged @@ load_single_env_file(contents[path])
             ELSE merged

\* load_env_files(env_file_paths): the files are read in order, a later file
\* overrides an earlier one, a file that cannot be read is skipped.
\* `readable` is the set of paths that fs::read_to_string can read.
RECURSIVE load_env_files(_, _, _)
load_env_files(env_file_paths, contents, readable) ==
    IF env_file_paths = <<>> THEN <<>>
    ELSE LET merged == load_env_files(Front(env_file_paths), contents, readable)
             path == Last(env_file_paths)
         IN  IF path \in readable
             THEN load_single_env_file(contents[path]) @@ merged
             ELSE merged

----------------------------------------------------------------------------
(* src/store/script_configs.rs, global_env.rs, args_history.rs, project_id.rs *)
(* A JSON text written by serde is the object it denotes, strings and       *)
(* numbers as tokens; Result and Option values are sequences of length 0    *)
(* (Err, None) or 1 (Ok, Some)                                              *)

Object(members) == [t |-> "object", v |-> members]

\* serde_json::to_string_pretty(configs): last_used as seconds since the epoch
script_configs_to_json(configs) ==
    Object([k \in DOMAIN configs |->
                [args |-> Str(configs[k].args), last_used |-> Num(configs[k].last_used)]])

\* load_script_configs(config_dir)
load_script_configs(file) ==
    IF file.kind = "missing" THEN << <<>> >>
    ELSE IF file.kind = "unreadable" THEN <<>>
    ELSE IF file.text.t # "object" THEN <<>>
    ELSE << [k \in DOMAIN file.text.v |->
                [args |-> file.text.v[k].args.v,
                 last_used |-> ParseNat(file.text.v[k].last_used.v)]] >>

\* save_script_configs(config_dir, configs); the caller drops the Result
save_script_configs(file, configs) == fs_write(file, script_configs_to_json(configs))

\* load_global_env_config(config_dir)
load_global_env_config(file) ==
    IF file.kind = "missing" THEN << [last_env_files |-> <<>>] >>
    ELSE IF file.kind = "unreadable" THEN <<>>
    ELSE IF file.text.t # "object" THEN <<>>
    ELSE << [last_env_files |->
                [i \in 1..Len(file.text.v.last_env_files) |->
                    file.text.v.last_env_files[i].v]] >>

\* save_global_env_config(config_dir, config)
save_global_env_config(file, config) ==
    fs_write(file, Object([last_env_files |->
                [i \in 1..Len(config.last_env_files) |-> Str(config.last_env_files[i])]]))

\* load_args_history(config_dir)
load_args_history(file) ==
    IF file.kind = "missing" THEN << NoHistory >>
    ELSE IF file.kind = "unreadable" THEN <<>>
    ELSE IF file.text.t # "object" THEN <<>>
    ELSE << [entries |-> [i \in 1..Len(file.text.v.entries) |-> file.text.v.entries[i].v]] >>

\* save_args_history(config_dir, history)
save_args_history(file, history) ==
    fs_write(file, Object([entries |->
                [i \in 1..Len(history.entries) |-> Str(history.entries[i])]]))

\* Result::unwrap_or_default
unwrap_or_default(result, default) == IF result = <<>> THEN default ELSE result[1]

\* project_id(config_dir): eight hexadecimal digits of the SHA-256 of the path
project_id(config_dir) == "5f3a9c1e"

----------------------------------------------------------------------------
(* The project of the sessions: a monorepo /repo with one workspace        *)
(* package, packages/app.  Both manifests have a script "a".               *)

RepoRoot == "/repo"
PkgRelativePath == "packages/app"
PkgDir == join(RepoRoot, PkgRelativePath)
ConfigDir == "/config/nr/projects/5f3a9c1e"

\* the bytes "app": the name of the workspace package
PkgName == <<97, 112, 112>>

\* load_scripts(dir): the script names of dir/package.json, in file order
load_scripts(dir) == IF dir = RepoRoot THEN << <<98>>, <<97>> >> ELSE << <<97>> >>

\* scan_workspaces(root)
scan_workspaces(root) ==
    << [name |-> PkgName, relative_path |-> PkgRelativePath,
        scripts |-> load_scripts(PkgDir)] >>

\* find_project_root(cwd): the nearest manifest and the monorepo root
find_project_root(cwd) == [nearest_pkg |-> cwd, monorepo_root |-> <<RepoRoot>>]

\* the entries of the two directories
Dirs == (RepoRoot :> {"package.json", ".env"}) @@ (PkgDir :> {"package.json", ".env"})

\* /repo/.env:               V=r            R="1"
\* /repo/packages/app/.env:  # c     V = 'p'     =x     no
EnvContents ==
    (join(RepoRoot, ".env") :> << <<86, 61, 114>>, <<82, 61, 34, 49, 34>> >>)
    @@ (join(PkgDir, ".env") :>
            << <<35, 32, 99>>, <<32, 86, 32, 61, 32, 39, 112, 39>>, <<61, 120>>,
               <<110, 111>> >>)

EnvPaths == DOMAIN EnvContents

\* Pattern::score for the pattern "q" of the sessions: it matches "b" alone
AppMatcher == [n \in Names \cup {PkgName} |-> IF n = <<98>> THEN <<1>> ELSE <<>>]

\* a recents.json at the cap, saved by earlier sessions: MAX_RECENTS records
\* of other scripts, each run MaxCount times at BaseTime
FullStore ==
    [i \in 1..MAX_RECENTS |->
        [key |-> "old:" \o ToString(i), last_run |-> BaseTime, count |-> MaxCount]]

----------------------------------------------------------------------------
(* src/app.rs: App::new and the key handlers.  `self` is the App: a record *)
(* of its fields (env_scroll_offset left out).  A handler gives the App it *)
(* leaves and the Action it returns.                                       *)

\* the rows the terminal shows of a list
TerminalRows == 1

\* render: draws the App and keeps the height of the list area
render(self) == [self EXCEPT !.visible_height = TerminalRows]

\* usize::max and usize::saturating_sub
max(a, b) == IF a >= b THEN a ELSE b
usize_saturating_sub(a, b) == IF a >= b THEN a - b ELSE 0

\* ensure_scroll(scroll_offset, selected, visible_height): the offset it leaves
ensure_scroll(scroll_offset, selected, visible_height) ==
    LET offset == IF selected < scroll_offset THEN selected ELSE scroll_offset
        height == max(visible_height, 1)
    IN  IF selected >= offset + height THEN usize_saturating_sub(selected, height - 1)
        ELSE offset

ActionContinue == [type |-> "Continue"]
ActionQuit == [type |-> "Quit"]
ActionRunScript(script_name, cwd, env_files, args) ==
    [type |-> "RunScript", script_name |-> script_name, cwd |-> cwd,
     env_files |-> env_files, args |-> args]
\* the handler panicked: the process ends in the panic hook
ActionPanic == [type |-> "Panic"]

SelectingPackage == [kind |-> "SelectingPackage"]
SelectingScript(package_index) == [kind |-> "SelectingScript", package_index |-> package_index]

\* Vec::get(index) with a 0-based index, as an Option
get(v, index) == IF index < Len(v) THEN <<v[index + 1]>> ELSE <<>>

\* App::new; `files` is the project directory
app_new(raw_scripts, workspace_packages, nearest_pkg, monorepo_root, files, now_ms) ==
    LET new_scripts == [i \in 1..Len(raw_scripts) |->
                            [key |-> "root:" \o name_str(raw_scripts[i]),
                             name |-> raw_scripts[i]]]
        favorites_data == load_favorites(files.favorites)
        recents_data == load_recents(files.recents)
    IN  [active_tab |-> "Scripts",
         package_mode |-> SelectingPackage,
         has_workspaces |-> workspace_packages # <<>>,
         scripts |-> new_scripts,
         workspace_packages |-> workspace_packages,
         nearest_pkg |-> nearest_pkg,
         monorepo_root |-> monorepo_root,
         favorites |-> favorites_data,
         recents |-> recents_data,
         query |-> "",
         visible_height |-> 20,
         selected_index |-> 0,
         scroll_offset |-> 0,
         filtered_indices |-> sort_scripts(new_scripts, favorites_data, recents_data, now_ms, ""),
         pkg_query |-> "",
         pkg_selected_index |-> 0,
         pkg_scroll_offset |-> 0,
         pkg_filtered_indices |-> [i \in 1..Len(workspace_packages) |-> i - 1],
         pkg_script_query |-> "",
         pkg_script_selected_index |-> 0,
         pkg_script_scroll_offset |-> 0,
         pkg_script_filtered_indices |-> <<>>,
         pkg_script_sortable |-> <<>>,
         mode |-> "Normal",
         execution_config |-> [args |-> <<>>],
         script_configs |-> unwrap_or_default(load_script_configs(files.script_configs), <<>>),
         global_env_config |-> unwrap_or_default(load_global_env_config(files.global_env),
                                                 [last_env_files |-> <<>>]),
         args_history |-> unwrap_or_default(load_args_history(files.args_history), NoHistory),
         config_dir |-> ConfigDir,
         env_files_list |-> <<>>,
         env_selected_index |-> 0,
         env_selected_files |-> {},
         args_input |-> <<>>,
         args_cursor_pos |-> 0,
         args_history_index |-> <<>>]

\* handle_esc
handle_esc(self) ==
    IF self.active_tab = "Scripts" THEN [self |-> self, action |-> ActionQuit]
    ELSE IF self.package_mode.kind = "SelectingPackage"
    THEN [self |-> self, action |-> ActionQuit]
    ELSE [self |-> [self EXCEPT !.package_mode = SelectingPackage,
                                !.pkg_script_query = "",
                                !.pkg_script_selected_index = 0,
                                !.pkg_script_scroll_offset = 0],
          action |-> ActionContinue]

\* enter_package_scripts(pkg_idx)
enter_package_scripts(self, pkg_idx, now_ms) ==
    LET pkg == self.workspace_packages[pkg_idx + 1]
        sortable == [i \in 1..Len(pkg.scripts) |->
                        [key |-> name_str(pkg.name) \o ":" \o name_str(pkg.scripts[i]),
                         name |-> pkg.scripts[i]]]
    IN  [self EXCEPT !.pkg_script_sortable = sortable,
                     !.package_mode = SelectingScript(pkg_idx),
                     !.pkg_script_query = "",
                     !.pkg_script_selected_index = 0,
                     !.pkg_script_scroll_offset = 0,
                     !.pkg_script_filtered_indices =
                        sort_scripts(sortable, self.favorites, self.recents, now_ms, "")]

\* the working directory of a script of the package at package_index
package_cwd(self, package_index) ==
    IF self.monorepo_root # <<>>
    THEN join(self.monorepo_root[1], self.workspace_packages[package_index + 1].relative_path)
    ELSE self.nearest_pkg

\* handle_enter
handle_enter(self, now_ms) ==
    IF self.active_tab = "Scripts"
    THEN LET hit == get(self.filtered_indices, self.selected_index)
         IN  IF hit # <<>>
             THEN LET script == self.scripts[hit[1] + 1]
                  IN  [self |-> [self EXCEPT !.recents =
                                    record_execution(self.recents, script.key, now_ms)],
                       action |-> ActionRunScript(script.name, self.nearest_pkg, <<>>, <<>>)]
             ELSE [self |-> self, action |-> ActionContinue]
    ELSE IF self.package_mode.kind = "SelectingPackage"
    THEN LET hit == get(self.pkg_filtered_indices, self.pkg_selected_index)
         IN  [self |-> IF hit # <<>> THEN enter_package_scripts(self, hit[1], now_ms)
                       ELSE self,
              action |-> ActionContinue]
    ELSE LET hit == get(self.pkg_script_filtered_indices, self.pkg_script_selected_index)
         IN  IF hit # <<>>
             THEN LET script == self.pkg_script_sortable[hit[1] + 1]
                  IN  [self |-> [self EXCEPT !.recents =
                                    record_execution(self.recents, script.key, now_ms)],
                       action |-> ActionRunScript(script.name,
                                    package_cwd(self, self.package_mode.package_index),
                                    <<>>, <<>>)]
             ELSE [self |-> self, action |-> ActionContinue]

\* wrap_index(current, delta, len)
\* a wrap_index that stops at the ends of the list
MutWrapIndexStops(current, delta, len) ==
    IF len = 0 THEN 0
    ELSE IF current + delta < 0 THEN 0
    ELSE IF current + delta >= len THEN len - 1
    ELSE current + delta

wrap_index(current, delta, len) ==
    IF len = 0 THEN 0
    ELSE IF current + delta < 0 THEN len - 1
    ELSE IF current + delta >= len THEN 0
    ELSE current + delta

\* move_selection(delta)
move_selection(self, delta) ==
    IF self.active_tab = "Scripts"
    THEN IF Len(self.filtered_indices) = 0 THEN self
         ELSE LET selected == wrap_index(self.selected_index, delta,
                                         Len(self.filtered_indices))
              IN  [self EXCEPT !.selected_index = selected,
                               !.scroll_offset =
                                    ensure_scroll(@, selected, self.visible_height)]
    ELSE IF self.package_mode.kind = "SelectingPackage"
    THEN IF Len(self.pkg_filtered_indices) = 0 THEN self
         ELSE LET selected == wrap_index(self.pkg_selected_index, delta,
                                         Len(self.pkg_filtered_indices))
              IN  [self EXCEPT !.pkg_selected_index = selected,
                               !.pkg_scroll_offset =
                                    ensure_scroll(@, selected, self.visible_height)]
    ELSE IF Len(self.pkg_script_filtered_indices) = 0 THEN self
         ELSE LET selected == wrap_index(self.pkg_script_selected_index, delta,
                                         Len(self.pkg_script_filtered_indices))
              IN  [self EXCEPT !.pkg_script_selected_index = selected,
                               !.pkg_script_scroll_offset =
                                    ensure_scroll(@, selected, self.visible_height)]

\* switch_tab(delta)
switch_tab(self, delta) ==
    IF ~self.has_workspaces THEN self
    ELSE IF self.active_tab = "Scripts" /\ delta = 1
    THEN [self EXCEPT !.active_tab = "Packages"]
    ELSE IF self.active_tab = "Packages" /\ delta = -1
    THEN [self EXCEPT !.package_mode = SelectingPackage,
                      !.pkg_script_query = "",
                      !.active_tab = "Scripts"]
    ELSE self

\* update_filtered
\* an update_filtered that leaves the scroll offset where it was
MutUpdateFilteredKeepsScroll(self, now_ms) ==
    [self EXCEPT !.filtered_indices =
                    sort_scripts(self.scripts, self.favorites, self.recents, now_ms, self.query),
                 !.selected_index = 0]

update_filtered(self, now_ms) ==
    [self EXCEPT !.filtered_indices =
                    sort_scripts(self.scripts, self.favorites, self.recents, now_ms, self.query),
                 !.selected_index = 0,
                 !.scroll_offset = 0]

\* update_pkg_filtered
update_pkg_filtered(self) ==
    [self EXCEPT !.pkg_filtered_indices = fuzzy_filter(self.workspace_packages, self.pkg_query),
                 !.pkg_selected_index = 0,
                 !.pkg_scroll_offset = 0]

\* update_pkg_script_filtered
update_pkg_script_filtered(self, now_ms) ==
    [self EXCEPT !.pkg_script_filtered_indices =
                    sort_scripts(self.pkg_script_sortable, self.favorites, self.recents,
                                 now_ms, self.pkg_script_query),
                 !.pkg_script_selected_index = 0,
                 !.pkg_script_scroll_offset = 0]

\* toggle_fav
toggle_fav(self, now_ms) ==
    IF self.active_tab = "Scripts"
    THEN LET hit == get(self.filtered_indices, self.selected_index)
         IN  IF hit = <<>> THEN self
             ELSE update_filtered(
                    [self EXCEPT !.favorites =
                        toggle_favorite(self.favorites, self.scripts[hit[1] + 1].key)],
                    now_ms)
    ELSE IF self.package_mode.kind = "SelectingScript"
    THEN LET hit == get(self.pkg_script_filtered_indices, self.pkg_script_selected_index)
         IN  IF hit = <<>> THEN self
             ELSE update_pkg_script_filtered(
                    [self EXCEPT !.favorites =
                        toggle_favorite(self.favorites,
                                        self.pkg_script_sortable[hit[1] + 1].key)],
                    now_ms)
    ELSE self

\* a char as a String
char_str(c) == IF c = 113 THEN "q" ELSE "x"

\* String::push
push(str, c) == str \o char_str(c)

\* String::pop on a query of the sessions, which has one char at most
pop(str) == ""

\* type_char(c)
type_char(self, c, now_ms) ==
    IF self.active_tab = "Scripts"
    THEN update_filtered([self EXCEPT !.query = push(self.query, c)], now_ms)
    ELSE IF self.package_mode.kind = "SelectingPackage"
    THEN update_pkg_filtered([self EXCEPT !.pkg_query = push(self.pkg_query, c)])
    ELSE update_pkg_script_filtered(
            [self EXCEPT !.pkg_script_query = push(self.pkg_script_query, c)], now_ms)

\* delete_char
delete_char(self, now_ms) ==
    IF self.active_tab = "Scripts"
    THEN update_filtered([self EXCEPT !.query = pop(self.query)], now_ms)
    ELSE IF self.package_mode.kind = "SelectingPackage"
    THEN update_pkg_filtered([self EXCEPT !.pkg_query = pop(self.pkg_query)])
    ELSE update_pkg_script_filtered(
            [self EXCEPT !.pkg_script_query = pop(self.pkg_script_query)], now_ms)

\* the script under the cursor of the active list, as an Option
current_script(self) ==
    IF self.active_tab = "Scripts"
    THEN LET hit == get(self.filtered_indices, self.selected_index)
         IN  IF hit # <<>> THEN <<self.scripts[hit[1] + 1]>> ELSE <<>>
    ELSE IF self.package_mode.kind = "SelectingScript"
    THEN LET hit == get(self.pkg_script_filtered_indices, self.pkg_script_selected_index)
         IN  IF hit # <<>> THEN <<self.pkg_script_sortable[hit[1] + 1]>> ELSE <<>>
    ELSE <<>>

\* get_current_script_key
get_current_script_key(self) ==
    IF current_script(self) # <<>>
    THEN project_id(self.config_dir) \o ":" \o current_script(self)[1].key
    ELSE project_id(self.config_dir) \o ":unknown"

\* get_current_script_name
get_current_script_name(self) ==
    IF current_script(self) # <<>> THEN current_script(self)[1].name ELSE <<>>

\* get_current_cwd
get_current_cwd(self) ==
    IF self.active_tab = "Scripts" THEN self.nearest_pkg
    ELSE IF self.package_mode.kind = "SelectingScript"
    THEN package_cwd(self, self.package_mode.package_index)
    ELSE self.nearest_pkg

\* HashMap::get, as an Option
map_get(map, k) == IF k \in DOMAIN map THEN <<map[k]>> ELSE <<>>

\* start_configure_flow; `dirs` gives the entries of the directories
start_configure_flow(self, dirs) ==
    LET config == map_get(self.script_configs, get_current_script_key(self))
        env_list == scan_env_files(get_current_cwd(self), self.monorepo_root, dirs)
    IN  [self EXCEPT
            !.execution_config = IF config # <<>> THEN [args |-> config[1].args]
                                 ELSE [args |-> <<>>],
            !.env_files_list = <<env_list>>,
            !.env_selected_files =
                {f.path : f \in {g \in Range(all_files(env_list)) :
                    \E i \in 1..Len(self.global_env_config.last_env_files) :
                        self.global_env_config.last_env_files[i] = g.display_name}},
            !.env_selected_index = 0,
            !.mode = "ConfigureEnv"]

\* a key event: Key(code), Char(c) and Ctrl+C
Key(code) == [code |-> code, c |-> 0, ctrl |-> FALSE]
Char(c) == [code |-> "Char", c |-> c, ctrl |-> FALSE]
CtrlC == [code |-> "Char", c |-> 99, ctrl |-> TRUE]

\* a match arm for Ctrl+C that no key takes
MutIsCtrlCNever(key) == FALSE

is_ctrl_c(key) == key.code = "Char" /\ key.c = 99 /\ key.ctrl

\* handle_normal_mode(key)
handle_normal_mode(self, key, now_ms, dirs) ==
    IF key.code = "Esc" THEN handle_esc(self)
    ELSE IF is_ctrl_c(key) THEN [self |-> self, action |-> ActionQuit]
    ELSE IF key.code = "Enter" THEN handle_enter(self, now_ms)
    ELSE [self |->
            IF key.code = "Tab" THEN start_configure_flow(self, dirs)
            ELSE IF key.code = "Up" THEN move_selection(self, -1)
            ELSE IF key.code = "Down" THEN move_selection(self, 1)
            ELSE IF key.code = "Left" THEN switch_tab(self, -1)
            ELSE IF key.code = "Right" THEN switch_tab(self, 1)
            ELSE IF key.code = "Char" /\ key.c = 32 THEN toggle_fav(self, now_ms)
            ELSE IF key.code = "Char" THEN type_char(self, key.c, now_ms)
            ELSE IF key.code = "Backspace" THEN delete_char(self, now_ms)
            ELSE self,
          action |-> ActionContinue]

\* handle_env_mode where Esc also leaves ConfigureEnv for ConfigureArgs
MutHandleEnvModeEscForward(self, key) ==
    IF is_ctrl_c(key) THEN [self |-> self, action |-> ActionQuit]
    ELSE [self |-> [self EXCEPT !.mode = "ConfigureArgs",
                                !.args_input = self.execution_config.args,
                                !.args_history_index = <<>>],
          action |-> ActionContinue]

\* handle_env_mode(key)
handle_env_mode(self, key) ==
    IF is_ctrl_c(key) THEN [self |-> self, action |-> ActionQuit]
    ELSE [self |->
            IF key.code = "Esc"
            THEN [self EXCEPT !.mode = "Normal",
                              !.execution_config = [args |-> <<>>],
                              !.env_files_list = <<>>]
            ELSE IF key.code = "Enter"
            THEN [self EXCEPT !.mode = "ConfigureArgs",
                              !.args_input = self.execution_config.args,
                              !.args_history_index = <<>>]
            ELSE IF self.env_files_list = <<>> THEN self
            ELSE LET files == all_files(self.env_files_list[1])
                 IN  IF key.code = "Up"
                     THEN IF Len(files) > 0 /\ self.env_selected_index > 0
                          THEN [self EXCEPT !.env_selected_index = @ - 1]
                          ELSE self
                     ELSE IF key.code = "Down"
                     THEN IF self.env_selected_index + 1 < Len(files)
                          THEN [self EXCEPT !.env_selected_index = @ + 1]
                          ELSE self
                     ELSE IF key.code = "Char" /\ key.c = 32
                     THEN LET file == get(files, self.env_selected_index)
                          IN  IF file = <<>> THEN self
                              ELSE IF file[1].path \in self.env_selected_files
                              THEN [self EXCEPT !.env_selected_files = @ \ {file[1].path}]
                              ELSE [self EXCEPT !.env_selected_files = @ \cup {file[1].path}]
                     ELSE self,
          action |-> ActionContinue]

\* String::insert(idx, c): None when idx is past the end (the call panics)
insert(str, idx, c) ==
    IF idx > Len(str) THEN <<>>
    ELSE << SubSeq(str, 1, idx) \o <<c>> \o SubSeq(str, idx + 1, Len(str)) >>

\* String::remove(idx): None when idx is not inside the string (the call panics)
remove_char(str, idx) ==
    IF idx >= Len(str) THEN <<>>
    ELSE << SubSeq(str, 1, idx) \o SubSeq(str, idx + 2, Len(str)) >>

\* handle_args_mode that runs the script on Enter
MutHandleArgsModeEnterRuns(self, key) ==
    IF is_ctrl_c(key) THEN [self |-> self, action |-> ActionQuit]
    ELSE IF key.code = "Enter"
    THEN [self |-> [self EXCEPT !.execution_config = [args |-> self.args_input],
                                !.mode = "Normal"],
          action |-> ActionRunScript(<<>>, self.nearest_pkg, <<>>, self.args_input)]
    ELSE [self |-> self, action |-> ActionContinue]

\* handle_args_mode(key)
\* a handle_args_mode whose Down selects an entry without copying it
MutHandleArgsModeDownKeepsInput(self, key) ==
    IF is_ctrl_c(key) THEN [self |-> self, action |-> ActionQuit]
    ELSE IF key.code = "Esc"
    THEN [self |-> [self EXCEPT !.mode = "ConfigureEnv"], action |-> ActionContinue]
    ELSE IF key.code = "Enter"
    THEN [self |-> [self EXCEPT !.execution_config = [args |-> self.args_input],
                                !.mode = "ConfirmExecution"],
          action |-> ActionContinue]
    ELSE IF key.code = "Down" /\ Len(self.args_history.entries) > 0
    THEN [self |-> [self EXCEPT !.args_history_index =
                        IF @ = <<>> THEN <<0>>
                        ELSE IF @[1] + 1 < Len(self.args_history.entries) THEN <<@[1] + 1>>
                        ELSE @],
          action |-> ActionContinue]
    ELSE [self |-> self, action |-> ActionContinue]

handle_args_mode(self, key) ==
    LET len == Len(self.args_input)
        entries == self.args_history.entries
        continue(s) == [self |-> s, action |-> ActionContinue]
    IN  IF is_ctrl_c(key) THEN [self |-> self, action |-> ActionQuit]
        ELSE IF key.code = "Esc" THEN continue([self EXCEPT !.mode = "ConfigureEnv"])
        ELSE IF key.code = "Enter"
        THEN continue([self EXCEPT !.execution_config = [args |-> self.args_input],
                                   !.mode = "ConfirmExecution"])
        ELSE IF key.code = "Up"
        THEN LET moved ==
                    IF self.args_history_index = <<>> THEN self
                    ELSE IF self.args_history_index[1] = 0
                    THEN [self EXCEPT !.args_history_index = <<>>,
                                      !.args_input = self.execution_config.args]
                    ELSE [self EXCEPT !.args_input = entries[self.args_history_index[1]],
                                      !.args_history_index = <<self.args_history_index[1] - 1>>]
             IN  continue([moved EXCEPT !.args_cursor_pos = Len(moved.args_input)])
        ELSE IF key.code = "Down"
        THEN LET new_index ==
                    IF self.args_history_index # <<>>
                       /\ self.args_history_index[1] + 1 < Len(entries)
                    THEN <<self.args_history_index[1] + 1>>
                    ELSE IF self.args_history_index = <<>> THEN <<0>>
                    ELSE self.args_history_index
                 moved ==
                    IF Len(entries) > 0
                    THEN [self EXCEPT !.args_input = entries[new_index[1] + 1],
                                      !.args_history_index = new_index]
                    ELSE self
             IN  continue([moved EXCEPT !.args_cursor_pos = Len(moved.args_input)])
        ELSE IF key.code = "Left"
        THEN continue(IF self.args_cursor_pos > 0
                      THEN [self EXCEPT !.args_cursor_pos = @ - 1] ELSE self)
        ELSE IF key.code = "Right"
        THEN continue(IF self.args_cursor_pos < len
                      THEN [self EXCEPT !.args_cursor_pos = @ + 1] ELSE self)
        ELSE IF key.code = "Home" THEN continue([self EXCEPT !.args_cursor_pos = 0])
        ELSE IF key.code = "End" THEN continue([self EXCEPT !.args_cursor_pos = len])
        ELSE IF key.code = "Char"
        THEN LET inserted == insert(self.args_input, self.args_cursor_pos, key.c)
             IN  IF inserted = <<>> THEN [self |-> self, action |-> ActionPanic]
                 ELSE continue([self EXCEPT !.args_input = inserted[1],
                                            !.args_cursor_pos = @ + 1,
                                            !.args_history_index = <<>>])
        ELSE IF key.code = "Backspace"
        THEN IF self.args_cursor_pos > 0
             THEN LET removed == remove_char(self.args_input, self.args_cursor_pos - 1)
                  IN  IF removed = <<>> THEN [self |-> self, action |-> ActionPanic]
                      ELSE continue([self EXCEPT !.args_input = removed[1],
                                                 !.args_cursor_pos = @ - 1,
                                                 !.args_history_index = <<>>])
             ELSE continue(self)
        ELSE IF key.code = "Delete"
        THEN IF self.args_cursor_pos < len
             THEN continue([self EXCEPT
                                !.args_input = remove_char(self.args_input,
                                                           self.args_cursor_pos)[1],
                                !.args_history_index = <<>>])
             ELSE continue(self)
        ELSE continue(self)

\* the keys a script may have, and the key that follows the project id and
\* the first colon of a script-config key: split(':').skip(1).join(":")
KeyStrings ==
    {"unknown"} \cup {owner \o ":" \o name_str(n) : owner \in {"root", "app"}, n \in Names}

\* an execution key that keeps the project id in front
MutExecutionKeyWhole(self, script_key) == script_key

execution_key(self, script_key) ==
    CHOOSE k \in KeyStrings : project_id(self.config_dir) \o ":" \o k = script_key

\* the files of env_list that are selected, in the given order
selected_of(self, files) ==
    SelectSeq(files, LAMBDA f : f.path \in self.env_selected_files)

\* handle_confirm_mode(key); `files` is the project directory, which Enter
\* writes to
\* a confirm step whose Esc remembers the arguments before it steps back
MutHandleConfirmModeEscRemembers(self, key, now_ms, files) ==
    IF is_ctrl_c(key) THEN [self |-> self, action |-> ActionQuit, files |-> files]
    ELSE IF key.code = "Esc"
    THEN [self |-> [self EXCEPT !.mode = "ConfigureArgs",
                                !.args_history =
                                    add_entry(self.args_history, self.execution_config.args)],
          action |-> ActionContinue, files |-> files]
    ELSE [self |-> self, action |-> ActionContinue, files |-> files]

handle_confirm_mode(self, key, now_ms, files) ==
    IF is_ctrl_c(key) THEN [self |-> self, action |-> ActionQuit, files |-> files]
    ELSE IF key.code = "Esc"
    THEN [self |-> [self EXCEPT !.mode = "ConfigureArgs"], action |-> ActionContinue,
          files |-> files]
    ELSE IF key.code = "Enter"
    THEN LET script_key == get_current_script_key(self)
             args == self.execution_config.args
             configs == (script_key :> [args |-> args, last_used |-> now_ms])
                            @@ self.script_configs
             shown == IF self.env_files_list = <<>> THEN <<>>
                      ELSE selected_of(self, all_files(self.env_files_list[1]))
             global == IF self.env_files_list = <<>> THEN self.global_env_config
                       ELSE [last_env_files |->
                                [i \in 1..Len(shown) |-> shown[i].display_name]]
             history == IF args # <<>> THEN add_entry(self.args_history, args)
                        ELSE self.args_history
             merge == IF self.env_files_list = <<>> THEN <<>>
                      ELSE selected_of(self, all_files_merge_order(self.env_files_list[1]))
         IN  [self |-> [self EXCEPT
                            !.script_configs = configs,
                            !.global_env_config = global,
                            !.args_history = history,
                            !.recents = record_execution(self.recents,
                                            execution_key(self, script_key), now_ms),
                            !.mode = "Normal"],
              action |-> ActionRunScript(get_current_script_name(self), get_current_cwd(self),
                            [i \in 1..Len(merge) |-> merge[i].path], args),
              files |-> [files EXCEPT
                            !.script_configs = save_script_configs(@, configs),
                            !.global_env =
                                IF self.env_files_list = <<>> THEN @
                                ELSE save_global_env_config(@, global),
                            !.args_history =
                                IF args # <<>> THEN save_args_history(@, history) ELSE @]]
    ELSE [self |-> self, action |-> ActionContinue, files |-> files]

\* handle_key(key): the handler of the current mode
\* a handle_key that lets the arrow keys move the list in every mode
MutHandleKeyArrowsEverywhere(self, key, now_ms, dirs, files) ==
    IF key.code \in {"Up", "Down"}
    THEN [self |-> move_selection(self, IF key.code = "Up" THEN -1 ELSE 1),
          action |-> ActionContinue, files |-> files]
    ELSE IF self.mode = "ConfirmExecution" THEN handle_confirm_mode(self, key, now_ms, files)
    ELSE LET handled == IF self.mode = "Normal"
                        THEN handle_normal_mode(self, key, now_ms, dirs)
                        ELSE IF self.mode = "ConfigureEnv" THEN handle_env_mode(self, key)
                        ELSE handle_args_mode(self, key)
         IN  [self |-> handled.self, action |-> handled.action, files |-> files]

handle_key(self, key, now_ms, dirs, files) ==
    IF self.mode = "ConfirmExecution" THEN handle_confirm_mode(self, key, now_ms, files)
    ELSE LET handled == IF self.mode = "Normal"
                        THEN handle_normal_mode(self, key, now_ms, dirs)
                        ELSE IF self.mode = "ConfigureEnv" THEN handle_env_mode(self, key)
                        ELSE handle_args_mode(self, key)
         IN  [self |-> handled.self, action |-> handled.action, files |-> files]

----------------------------------------------------------------------------
(* Sessions of the App in the project: main() finds the project from the   *)
(* working directory, builds the App, passes it the key events, and ends   *)
(* on Quit or RunScript.  The clock stands still within a session.         *)

MaxArgs == 1         \* characters typed into the arguments line
MaxNav == 1          \* keys that move about or edit in Normal mode, over all sessions

\* the key events of the sessions
Keys ==
    {Key("Esc"), CtrlC, Key("Enter"), Key("Tab"), Key("Up"), Key("Down"), Key("Left"),
     Key("Right"), Char(32), Char(113), Char(120), Key("Backspace"), Key("Home"),
     Key("End"), Key("Delete"), Key("F1")}

\* the App as one record, and the variables it is held in
StoreFields == {"scripts", "favorites", "recents", "query", "filtered_indices", "args_history"}

Self ==
    [f \in DOMAIN app \ StoreFields |-> app[f]]
        @@ [scripts |-> scripts, favorites |-> favorites, recents |-> recents,
            query |-> query, filtered_indices |-> filtered_indices,
            args_history |-> args_history]

Becomes(self) ==
    /\ scripts' = self.scripts
    /\ favorites' = self.favorites
    /\ recents' = self.recents
    /\ query' = self.query
    /\ filtered_indices' = self.filtered_indices
    /\ args_history' = self.args_history
    /\ app' = [f \in DOMAIN self \ StoreFields |-> self[f]]

\* a script as the user knows it: the directory of its manifest and its name
script_id(dir, name) == dir \o ":" \o name_str(name)

\* the script under the cursor as the user knows it
current_id(self) ==
    IF current_script(self) = <<>> THEN "none"
    ELSE script_id(get_current_cwd(self), current_script(self)[1].name)

\* the keys the App has given to the scripts it lists
keys_of(self) ==
    {[id |-> script_id(self.nearest_pkg, self.scripts[i].name), key |-> self.scripts[i].key] :
        i \in 1..Len(self.scripts)}
    \cup (IF self.package_mode.kind = "SelectingScript"
          THEN {[id |-> script_id(package_cwd(self, self.package_mode.package_index),
                                  self.pkg_script_sortable[i].name),
                 key |-> self.pkg_script_sortable[i].key] :
                    i \in 1..Len(self.pkg_script_sortable)}
          ELSE {})

\* the arguments of two earlier runs, "1" after "5"
EarlierArgs == [entries |-> <<(<<49>>), (<<53>>)>>]

\* the store of a project never run, and of one run many times
FreshDisk ==
    [favorites |-> Missing, recents |-> Missing, script_configs |-> Missing,
     global_env |-> Missing, args_history |-> Missing]
UsedDisk ==
    [FreshDisk EXCEPT !.recents = File(to_string_pretty(FullStore)),
                      !.args_history = save_args_history(Missing, EarlierArgs)]

\* A project is followed from its first session, or, when its store already
\* holds MAX_RECENTS records, for the last of the MaxSessions sessions.
AppInit ==
    /\ disk \in {FreshDisk, UsedDisk}
    /\ scripts = <<>>
    /\ favorites = {}
    /\ recents = <<>>
    /\ query = ""
    /\ matcher = AppMatcher
    /\ now = BaseTime
    /\ filtered_indices = <<>>
    /\ args_history = NoHistory
    /\ app = NoApp
    /\ op = [name |-> "boot",
             session |-> IF disk.recents = Missing THEN 0 ELSE MaxSessions - 1,
             keys |-> 0,
             action |-> ActionContinue, env |-> <<>>, keyed |-> {},
             confirmed |-> <<>>, selected |-> <<>>]

AppRunning == op.name \in {"new", "key"}

\* main() up to the event loop, started in the directory cwd
AppStart(cwd) ==
    /\ ~AppRunning
    /\ op.session < MaxSessions
    /\ LET root == find_project_root(cwd)
            self == app_new(load_scripts(root.nearest_pkg),
                            scan_workspaces(root.monorepo_root[1]),
                            root.nearest_pkg, root.monorepo_root, disk, now)
        IN  /\ Becomes(self)
            /\ op' = [op EXCEPT !.name = "new", !.session = @ + 1,
                                !.action = ActionContinue, !.env = <<>>,
                                !.keyed = @ \cup keys_of(self)]
    /\ UNCHANGED <<matcher, now, disk>>

\* the keys that are counted against MaxNav: those that move about or edit
\* in Normal mode
Counted(key) ==
    /\ app.mode = "Normal"
    /\ key \in {Key("Up"), Key("Down"), Key("Left"), Key("Right"), Key("Backspace"),
                Char(32), Char(113), Char(120)}

\* the query the key would extend
active_query ==
    IF app.active_tab = "Scripts" THEN query
    ELSE IF app.package_mode.kind = "SelectingPackage" THEN app.pkg_query
    ELSE app.pkg_script_query

\* the characters typed: "q" into an empty query, "x" into the arguments
Typed(key) ==
    (key.code = "Char" /\ ~key.ctrl) =>
        \/ app.mode = "Normal" /\ key.c = 32
        \/ app.mode = "Normal" /\ key.c = 113 /\ active_query = ""
        \/ app.mode = "ConfigureArgs" /\ key.c = 120 /\ Len(app.args_input) < MaxArgs
        \/ app.mode \in {"ConfigureEnv", "ConfirmExecution"}

\* one turn of the event loop: render, handle_key, then what main() does with
\* the Action.  On RunScript it saves favorites and recents, loads the env files
\* (unless there are neither env files nor arguments) and runs the script.
Turn(key) ==
    \E handled \in {handle_key(render(Self), key, now, Dirs, disk)} :
    LET action == handled.action
        configured == app.mode = "ConfirmExecution" /\ action.type = "RunScript"
    IN  /\ Becomes(handled.self)
        /\ disk' = IF action.type = "RunScript"
                   THEN [handled.files EXCEPT
                            !.favorites = save_favorites(@, handled.self.favorites),
                            !.recents = save_recents(@, handled.self.recents)]
                   ELSE handled.files
        /\ \E readable \in SUBSET EnvPaths :
            /\ (action.type # "RunScript" \/ (action.env_files = <<>> /\ action.args = <<>>))
                    => readable = EnvPaths
            /\ op' = [op EXCEPT
                        !.name = IF action.type = "Continue" THEN "key"
                                 ELSE IF action.type = "Quit" THEN "quit"
                                 ELSE IF action.type = "Panic" THEN "panic"
                                 ELSE "run_script",
                        !.keys = IF Counted(key) THEN @ + 1 ELSE @,
                        !.action = action,
                        !.env = IF action.type = "RunScript"
                                   /\ ~(action.env_files = <<>> /\ action.args = <<>>)
                                THEN <<[readable |-> readable,
                                        vars |-> load_env_files(action.env_files,
                                                                EnvContents, readable)]>>
                                ELSE <<>>,
                        !.keyed = @ \cup keys_of(handled.self),
                        !.confirmed = IF configured
                                      THEN (current_id(Self) :> action.args) @@ @
                                      ELSE @,
                        !.selected = IF configured
                                     THEN <<[found |-> app.env_files_list,
                                             chosen |-> app.env_selected_files]>>
                                     ELSE @]
        /\ UNCHANGED <<matcher, now>>

KeyEvent(key) ==
    /\ AppRunning
    /\ Counted(key) => op.keys < MaxNav
    /\ Typed(key)
    /\ Turn(key)

HandleNormalMode(key) == app.mode = "Normal" /\ KeyEvent(key)
HandleEnvMode(key) == app.mode = "ConfigureEnv" /\ KeyEvent(key)
HandleArgsMode(key) == app.mode = "ConfigureArgs" /\ KeyEvent(key)
HandleConfirmMode(key) == app.mode = "ConfirmExecution" /\ KeyEvent(key)

AppNext ==
    \/ \E cwd \in {RepoRoot, PkgDir} : AppStart(cwd)
    \/ \E key \in Keys : HandleNormalMode(key)
    \/ \E key \in Keys : HandleEnvMode(key)
    \/ \E key \in Keys : HandleArgsMode(key)
    \/ \E key \in Keys : HandleConfirmMode(key)

SpecApp == AppInit /\ [][AppNext]_vars

----------------------------------------------------------------------------
(* What the claims speak of *)

Idx == 0..(Len(scripts) - 1)
Sorted == op.name = "sort_scripts"
Appears(i) == \E p \in 1..Len(filtered_indices) : filtered_indices[p] = i
Pos(i) == CHOOSE p \in 1..Len(filtered_indices) : filtered_indices[p] = i
Before(a, b) == Appears(a) /\ Appears(b) /\ Pos(a) < Pos(b)
IsFav(i) == scripts[i + 1].key \in favorites
Tracked(i) == \E r \in 1..Len(recents) : recents[r].key = scripts[i + 1].key
Matched(i) == matcher[scripts[i + 1].name] # <<>>
Fuzzy(i) == matcher[scripts[i + 1].name][1]
\* the score the ranking computed for item i, at the clock value it read
Score(i) ==
    IF Tracked(i)
    THEN LET e == recents[CHOOSE r \in 1..Len(recents) : recents[r].key = scripts[i + 1].key]
         IN  frecency_score(e.count, e.last_run, now)
    ELSE ZeroScore
\* n1 sorts strictly before n2 in dictionary order
AlphaLess(n1, n2) ==
    \E k \in 1..Len(n2) :
        /\ k <= Len(n1) + 1
        /\ \A j \in 1..(k - 1) : n1[j] = n2[j]
        /\ (k = Len(n1) + 1 \/ n1[k] < n2[k])
NameOf(i) == scripts[i + 1].name

\* C1: with a non-empty query, of two matched items with different fuzzy scores
\* the one with the higher score comes earlier, whatever their favorite status
\* and frecency score.
C1_RelevanceFirst ==
    (Sorted /\ query # "") =>
        \A a, b \in Idx :
            (Matched(a) /\ Matched(b) /\ Fuzzy(a) > Fuzzy(b)) => Before(a, b)

\* C2: with a non-empty query, the output holds exactly the indices of the
\* matched items, each once (and is empty when nothing matches).
C2_ExactlyTheMatches ==
    (Sorted /\ query # "") =>
        /\ Range(filtered_indices) = {i \in Idx : Matched(i)}
        /\ Cardinality(Range(filtered_indices)) = Len(filtered_indices)

C2_Witness ==
    /\ Sorted /\ query # ""
    /\ Len(filtered_indices) = 2
    /\ \E i \in Idx : ~Matched(i)
    /\ favorites # {} /\ recents # <<>>

\* C3: with an empty query, the output is a permutation of all item indices.
C3_Permutation ==
    (Sorted /\ query = "") =>
        /\ Len(filtered_indices) = Len(scripts)
        /\ Range(filtered_indices) = Idx

C3_Witness ==
    /\ Sorted /\ query = ""
    /\ Len(scripts) = MaxScripts
    /\ favorites # {} /\ Len(recents) = MaxRecs
    /\ filtered_indices # [i \in 1..Len(scripts) |-> i - 1]

\* C4: with an empty query, every favorite precedes every non-favorite,
\* whatever the recency records of the non-favorites.
C4_FavoritesFirst ==
    (Sorted /\ query = "") =>
        \A a, b \in Idx : (IsFav(a) /\ ~IsFav(b)) => Before(a, b)

C4_Witness ==
    /\ Sorted /\ query = ""
    /\ \E a, b \in Idx :
        /\ IsFav(a) /\ ~IsFav(b) /\ b < a
        /\ ~Tracked(a) /\ Tracked(b) /\ Score(b) > ZeroScore
        /\ AlphaLess(NameOf(b), NameOf(a))
        /\ Before(a, b)

\* C5: with an empty query, the favorites appear in alphabetical order of their
\* names, whatever their recency records.
C5_FavoritesAlphabetical ==
    (Sorted /\ query = "") =>
        \A a, b \in Idx :
            (IsFav(a) /\ IsFav(b) /\ AlphaLess(NameOf(a), NameOf(b))) => Before(a, b)

C5_Witness ==
    /\ Sorted /\ query = ""
    /\ \E a, b \in Idx :
        /\ IsFav(a) /\ IsFav(b) /\ AlphaLess(NameOf(a), NameOf(b))
        /\ b < a /\ Score(b) > Score(a)
        /\ Before(a, b)

\* C6: with an empty query, the non-favorites are ordered by descending
\* frecency score, an item without a record counting as 0, so that every
\* tracked item precedes every untracked one; equal scores are ordered
\* alphabetically by name.
C6_NonFavoritesByFrecency ==
    (Sorted /\ query = "") =>
        \A a, b \in Idx :
            (~IsFav(a) /\ ~IsFav(b)) =>
                /\ (Score(a) > Score(b)) => Before(a, b)
                /\ (Tracked(a) /\ ~Tracked(b)) => Before(a, b)
                /\ (Score(a) = Score(b) /\ AlphaLess(NameOf(a), NameOf(b)))
                        => Before(a, b)

\* C7: with a non-empty query, among matched items of equal fuzzy score a
\* favorite precedes a non-favorite, and of two items of equal favorite status
\* the one with the higher frecency score comes first.
C7_TieFavoriteThenFrecency ==
    (Sorted /\ query # "") =>
        \A a, b \in Idx :
            (Matched(a) /\ Matched(b) /\ Fuzzy(a) = Fuzzy(b)) =>
                /\ (IsFav(a) /\ ~IsFav(b)) => Before(a, b)
                /\ (IsFav(a) = IsFav(b) /\ Score(a) > Score(b)) => Before(a, b)

C7_Witness ==
    /\ Sorted /\ query # ""
    /\ \E a, b, c \in Idx :
        /\ Matched(a) /\ Matched(b) /\ Matched(c)
        /\ Fuzzy(a) = Fuzzy(b) /\ Fuzzy(b) = Fuzzy(c)
        /\ a < b /\ b < c
        /\ ~IsFav(a) /\ ~IsFav(b) /\ IsFav(c)
        /\ Score(b) > Score(a) /\ Score(a) > Score(c)
        /\ filtered_indices = <<c, b, a>>

\* C8 as stated: with a non-empty query, two matched items that tie on fuzzy
\* score, favorite status and frecency score are ordered alphabetically by name.
C8_TieAlphabetical ==
    (Sorted /\ query # "") =>
        \A a, b \in Idx :
            (/\ Matched(a) /\ Matched(b) /\ Fuzzy(a) = Fuzzy(b)
             /\ IsFav(a) = IsFav(b) /\ Score(a) = Score(b)
             /\ AlphaLess(NameOf(a), NameOf(b))) => Before(a, b)

\* C8 as amended: with a non-empty query, two matched items that tie on fuzzy
\* score, favorite status and frecency score keep the order they have in the
\* input list.
C8_TieInputOrder ==
    (Sorted /\ query # "") =>
        \A a, b \in Idx :
            (/\ Matched(a) /\ Matched(b) /\ Fuzzy(a) = Fuzzy(b)
             /\ IsFav(a) = IsFav(b) /\ Score(a) = Score(b)
             /\ a < b) => Before(a, b)

C8_Witness ==
    /\ Sorted /\ query # ""
    /\ \E a, b \in Idx :
        /\ Matched(a) /\ Matched(b) /\ Fuzzy(a) = Fuzzy(b)
        /\ IsFav(a) = IsFav(b) /\ Score(a) = Score(b)
        /\ Tracked(a) /\ Tracked(b)
        /\ a < b /\ AlphaLess(NameOf(b), NameOf(a))
        /\ Before(a, b)

C10_NewKeyKept ==
    (op.name = "record_execution" /\ ~op.existed /\ op.len_before = MAX_RECENTS) =>
        /\ Len(recents) = MAX_RECENTS
        /\ \E i \in 1..Len(recents) : recents[i].key = op.key

\* the record a call for a key without a record pushes
Pushed == [key |-> op'.key, last_run |-> now', count |-> 1]
\* a record_execution step for a key without a record, on a store of n records
InsertStep(n) ==
    op'.name = "record_execution" /\ ~op'.existed /\ op'.len_before = n
\* a record_execution step for a key that has a record
UpdateStep == op'.name = "record_execution" /\ op'.existed
\* the scores of the records of `recs` at the clock value t
ScoresAt(recs, t) ==
    [i \in 1..Len(recs) |-> frecency_score(recs[i].count, recs[i].last_run, t)]
\* `after` is `upd` without its first record of minimal score
FirstMinimumRemoved(upd, sc, after) ==
    LET lowest == CHOOSE x \in Range(sc) : \A y \in Range(sc) : x <= y
        m == CHOOSE i \in 1..Len(upd) :
                sc[i] = lowest /\ \A j \in 1..(i - 1) : sc[j] # lowest
    IN  after = [i \in 1..(Len(upd) - 1) |-> IF i < m THEN upd[i] ELSE upd[i + 1]]

\* C11: when a call leaves the store above 100 records, exactly one record is
\* removed: the first, in list order, of the records whose frecency score at the
\* time of the call is minimal; all other records stay, unchanged and in the
\* same relative order.
C11_EvictsFirstMinimum ==
    [][InsertStep(MAX_RECENTS) =>
            FirstMinimumRemoved(Append(recents, Pushed),
                                ScoresAt(Append(recents, Pushed), now'),
                                recents')]_vars

\* a full store took a new key and evicted a record from its middle
C11_Witness ==
    /\ op.name = "record_execution" /\ ~op.existed /\ op.len_before = MAX_RECENTS
    /\ Len(recents) = MAX_RECENTS
    /\ recents[1].key = 1
    /\ recents[MAX_RECENTS - 1].key = MAX_RECENTS
    /\ recents[MAX_RECENTS].key = op.key

\* C12: a call for a key that has a record adds 1 to its count, sets its
\* last_run to the current time, adds no record and leaves every other record
\* unchanged; a call for a key without a record leaves exactly one record of
\* that key, at the end of the list, with count 1 and last_run the current
\* time; and no key ever has two records.
C12_UpdateOrInsert ==
    /\ [](\A i, j \in 1..Len(recents) : i # j => recents[i].key # recents[j].key)
    /\ [][/\ UpdateStep =>
                \E i \in 1..Len(recents) :
                    /\ recents[i].key = op'.key
                    /\ recents' = [recents EXCEPT ![i] =
                            [key |-> @.key, last_run |-> now', count |-> @.count + 1]]
          /\ (\E n \in 0..MAX_RECENTS : InsertStep(n)) =>
                /\ Cardinality({i \in 1..Len(recents') : recents'[i].key = op'.key}) = 1
                /\ recents'[Len(recents')] = Pushed]_vars

Scored == op.name = "frecency_score"
Returned(i) == op.results[i] # <<>>
Result(i) == op.results[i][1]
\* the f64 is a number (not NaN) greater than negative infinity
Finite(x) == x # NaN /\ x # NegInf
\* the image of the f64 1.0
OneScore == Pow2(Pow2(MaxAge))
\* the frequency term of a count: the score at age 0, where 0.5^age is 1.0
FrequencyTerm(count) == frecency_score(count, now, now)

\* C13: frecency_score returns a finite, strictly positive number for every
\* input, count 0 and count u32::MAX included: the frequency term is at least 1,
\* and count + 1 neither fails nor wraps.
C13_FinitePositive ==
    Scored =>
        \A i \in 1..2 :
            /\ Returned(i)
            /\ Finite(Result(i)) /\ Result(i) > ZeroScore
            /\ FrequencyTerm(recents[i].count) >= OneScore

\* C14: with last_run equal to now, the score is strictly increasing in the
\* count: count1 < count2 implies score(count1) < score(count2).
C14_IncreasingInCount ==
    Scored =>
        \A i, j \in 1..2 :
            (/\ recents[i].last_run = now /\ recents[j].last_run = now
             /\ u32_lt(recents[i].count, recents[j].count)) =>
                /\ Returned(i) /\ Returned(j)
                /\ Result(i) # NaN /\ Result(j) # NaN
                /\ Result(i) < Result(j)

\* C15: for a fixed count the score never increases with age: of two calls
\* with the same count, the one with the earlier last_run (neither later than
\* now) scores at most as much as the other.
C15_NonIncreasingInAge ==
    Scored =>
        \A i, j \in 1..2 :
            (/\ recents[i].count = recents[j].count
             /\ recents[j].last_run < recents[i].last_run
             /\ recents[i].last_run <= now) =>
                /\ Returned(i) /\ Returned(j)
                /\ Result(i) # NaN /\ Result(j) # NaN
                /\ Result(j) <= Result(i)

\* C16: a last_run later than now counts as age 0: the call behaves as the call
\* with last_run = now and the same count does, so its score equals that score
\* and never exceeds it.
C16_FutureCountsAsNow ==
    Scored =>
        \A i, j \in 1..2 :
            (/\ recents[i].count = recents[j].count
             /\ recents[i].last_run > now /\ recents[j].last_run = now) =>
                /\ op.results[i] = op.results[j]
                /\ Returned(i) => Result(i) # NaN

C16_Witness ==
    /\ Scored
    /\ \E i, j \in 1..2 :
        /\ recents[i].count = recents[j].count
        /\ recents[i].last_run > now /\ recents[j].last_run = now
        /\ Returned(i) /\ Result(i) > OneScore

\* C17: for fixed items, favorites, recency records and query, a sort_scripts
\* call made at any other wall-clock time returns the same index sequence as
\* the call made.
C17_SameOrderAtAnyTime ==
    Sorted =>
        \A t \in Clock :
            sort_scripts(scripts, favorites, recents, t, query) = filtered_indices

\* the session has ended
Ended == op.name \in {"quit", "run_script"}
Openable == disk.favorites # Unreadable /\ disk.recents # Unreadable

\* C18: when a session ends, by running a script or by quitting, the favorites
\* and the recency store it holds are on disk (where the files can be
\* written), so that the next session loads them.
C18_SavedAtSessionEnd ==
    (Ended /\ Openable) =>
        /\ load_favorites(disk.favorites) = favorites
        /\ load_recents(disk.recents) = recents

\* C19: a store that was saved and is loaded back is the same list of records:
\* same keys, same order, same counts, same last_run; and it ranks the scripts
\* the same.
C19_RoundTrip ==
    (/\ op.name = "new" /\ op.left.name = "run_script"
     /\ disk.recents.kind = "file") =>
        /\ recents = op.left.recents
        /\ filtered_indices = sort_scripts(scripts, favorites, op.left.recents, now, "")

C19_Witness ==
    /\ op.name = "new" /\ op.left.name = "run_script"
    /\ disk.recents.kind = "file"
    /\ Len(recents) = 2
    /\ recents[1].count >= 2 /\ recents[1].last_run >= 10
    /\ recents[2].count = 1 /\ recents[2].last_run > recents[1].last_run
    /\ filtered_indices # [i \in 1..Len(scripts) |-> i - 1]

\* C20: loading never fails: with recents.json missing, unreadable or not
\* parsable the session starts with an empty store, and its list is ordered
\* without regard to recency: favorites first, and alphabetically by name
\* among the favorites and among the others.
C20_BrokenFileLoadsEmpty ==
    (op.name = "new" /\ disk.recents \in BrokenRecentsFiles) =>
        /\ recents = <<>>
        /\ Len(filtered_indices) = Len(scripts)
        /\ \A a, b \in Idx :
            /\ (IsFav(a) /\ ~IsFav(b)) => Before(a, b)
            /\ (IsFav(a) = IsFav(b) /\ AlphaLess(NameOf(a), NameOf(b))) => Before(a, b)

C20_Witness ==
    /\ op.name = "new"
    /\ disk.recents.kind = "file" /\ Len(disk.recents.text) > 1
    /\ disk.recents \in BrokenRecentsFiles
    /\ favorites = {}
    /\ filtered_indices = <<1, 2, 0>>

\* the keys a favorites.json maps to true: those followed by a colon and the
\* token `true`
MappedToTrue(file) ==
    IF file.kind # "file" THEN {}
    ELSE {k \in {x.key : x \in ScriptPool} :
            \E p \in 1..(Len(file.text) - 2) :
                /\ is_str(file.text[p], k)
                /\ is_punct(file.text[p + 1], ":")
                /\ file.text[p + 2].t = "bool"
                /\ file.text[p + 2].v}

\* C21: loading favorites returns exactly the keys the stored object maps to
\* true (a key mapped to false or to a value that is no boolean is dropped, a
\* missing, unreadable or corrupt file gives the empty set), and a set that
\* was saved is the set the next load returns
C21_LoadsKeysMappedToTrue ==
    op.name = "new" =>
        /\ favorites = MappedToTrue(disk.favorites)
        /\ disk.favorites.kind # "file" => favorites = {}
        /\ disk.favorites = File(Garbage) => favorites = {}
        /\ (op.left.name = "run_script" /\ disk.favorites.kind = "file")
                => favorites = op.left.favorites

\* the object edited by hand was loaded as its one true key, a second key was
\* made a favorite, the set of two was saved and the next session loaded it
C21_Witness ==
    /\ op.name = "new"
    /\ op.session = 2
    /\ op.left.name = "run_script"
    /\ op.left.favorites = {PoolSeq[1].key, PoolSeq[3].key}
    /\ favorites = {PoolSeq[1].key, PoolSeq[3].key}

\* C28: after any sequence of add_entry calls on a history that started empty
\* the history holds at most 20 entries, no entry twice, no entry that is
\* empty or only whitespace, and its first entry is the non-blank entry added
\* last (an entry added again moves to the front)
C28_HistoryCappedDistinctRecentFirst ==
    LET entries == args_history.entries
    IN  /\ Len(entries) <= 20
        /\ \A i, j \in 1..Len(entries) : i # j => entries[i] # entries[j]
        /\ \A i \in 1..Len(entries) :
                \E p \in 1..Len(entries[i]) : entries[i][p] \notin {9, 10, 32}
        /\ op.added # <<>> => (entries # <<>> /\ entries[1] = op.added[1])

\* a full history took a new entry and then an entry it held: the new one
\* pushed the oldest out, the old one moved to the front
C28_Witness ==
    /\ op.name = "add_entry"
    /\ op.calls = 2
    /\ op.entry = <<53>>
    /\ Len(args_history.entries) = 20
    /\ args_history.entries[1] = <<53>>
    /\ args_history.entries[2] = <<120>>
    /\ \A i \in 1..20 : args_history.entries[i] # <<48 + 20>>

\* C30: toggle_favorite(key) adds the key and returns true when the key was
\* absent, removes it and returns false when it was present, leaves every
\* other key as it was, and a second application restores the original set
C30_ToggleAddsOrRemoves ==
    op.name = "toggle_fav" =>
        /\ op.key \notin op.before
                => (favorites = op.before \cup {op.key} /\ op.returned = TRUE)
        /\ op.key \in op.before
                => (favorites = op.before \ {op.key} /\ op.returned = FALSE)
        /\ \A s \in ScriptPool :
                s.key # op.key => (s.key \in favorites <=> s.key \in op.before)
        /\ toggle_favorite(favorites, op.key) = op.before

\* a second key press in the session removed a favorite and left another
C30_Witness ==
    /\ op.name = "toggle_fav"
    /\ op.keys = 2
    /\ op.key \in op.before
    /\ op.returned = FALSE
    /\ favorites # {}
    /\ op.key \notin favorites

\* C22: no two distinct scripts receive the same key: of the keys the App has
\* given to the scripts it listed (the scripts of the directory it was started
\* in, "root:<name>", and the scripts of the workspace packages it opened,
\* "<package name>:<name>"), the same key always names the same script.
C22_KeysGloballyUnique ==
    \A p \in op.keyed : \A q \in op.keyed : p.key = q.key => p.id = q.id

\* what handle_key answers to `key` in the present state of the App, once
\* drawn
Handled(key) == handle_key(render(Self), key, now, Dirs, disk)

\* the modes of the wizard
WizardModes == {"ConfigureEnv", "ConfigureArgs", "ConfirmExecution"}

\* C23: Tab in Normal mode enters ConfigureEnv, Enter there enters
\* ConfigureArgs, Enter there enters ConfirmExecution, each returning Continue;
\* Enter in ConfirmExecution returns RunScript and resets the mode to Normal;
\* no other key of the wizard returns RunScript.
C23_RunOnlyAtEndOfWizard ==
    AppRunning =>
        \A key \in Keys :
            LET r == Handled(key)
            IN  /\ (app.mode = "Normal" /\ key = Key("Tab")) =>
                        r.self.mode = "ConfigureEnv" /\ r.action = ActionContinue
                /\ (app.mode = "ConfigureEnv" /\ key = Key("Enter")) =>
                        r.self.mode = "ConfigureArgs" /\ r.action = ActionContinue
                /\ (app.mode = "ConfigureArgs" /\ key = Key("Enter")) =>
                        r.self.mode = "ConfirmExecution" /\ r.action = ActionContinue
                /\ (app.mode = "ConfirmExecution" /\ key = Key("Enter")) =>
                        r.self.mode = "Normal" /\ r.action.type = "RunScript"
                /\ (app.mode \in WizardModes /\ r.action.type = "RunScript") =>
                        app.mode = "ConfirmExecution" /\ key = Key("Enter")

\* a configured run was issued in the first session
C23_Witness ==
    /\ op.name = "run_script"
    /\ op.session = 1
    /\ op.selected # <<>>
    /\ app.mode = "Normal"
    /\ op.action.args # <<>>

\* the App after n presses of Esc, and whether all of them returned Continue
RECURSIVE EscPresses(_, _)
EscPresses(self, n) ==
    IF n = 0 THEN [self |-> self, continued |-> TRUE]
    ELSE LET r == handle_key(self, Key("Esc"), now, Dirs, disk)
             rest == EscPresses(r.self, n - 1)
         IN  [self |-> rest.self,
              continued |-> r.action = ActionContinue /\ rest.continued]

\* the wizard mode one step back
StepBack(mode) ==
    IF mode = "ConfirmExecution" THEN "ConfigureArgs"
    ELSE IF mode = "ConfigureArgs" THEN "ConfigureEnv"
    ELSE "Normal"

\* C24: in a wizard mode Esc returns Continue and moves exactly one step back,
\* so at most three Esc presses, none of which quits, reach Normal mode.
C24_EscStepsBack ==
    (AppRunning /\ app.mode \in WizardModes) =>
        /\ Handled(Key("Esc")).action = ActionContinue
        /\ Handled(Key("Esc")).self.mode = StepBack(app.mode)
        /\ \E n \in 1..3 :
            /\ EscPresses(Self, n).self.mode = "Normal"
            /\ EscPresses(Self, n).continued

\* the wizard is back at its first step after arguments were entered: in a
\* project without saved arguments, ConfigureEnv holding arguments is reached
\* by Esc from ConfirmExecution and Esc from ConfigureArgs
C24_Witness ==
    /\ AppRunning
    /\ op.session = 1
    /\ op.confirmed = <<>>
    /\ app.mode = "ConfigureEnv"
    /\ app.execution_config.args # <<>>

\* the App when a configure flow is started (Tab), and on entering
\* ConfigureArgs right after (Enter)
FlowStarted == Handled(Key("Tab")).self
ArgsEntered == handle_key(FlowStarted, Key("Enter"), now, Dirs, disk).self

\* the arguments of the last confirmed run of the script under the cursor
Remembered ==
    IF current_id(Self) \in DOMAIN op.confirmed THEN op.confirmed[current_id(Self)] ELSE <<>>

\* C25: a configure flow started for a script shows, on entering
\* ConfigureArgs, the arguments its last configured run was confirmed with,
\* and empty arguments when the script has no confirmed run.
C25_ArgsRememberedPerScript ==
    (AppRunning /\ app.mode = "Normal") =>
        /\ FlowStarted.execution_config.args = Remembered
        /\ ArgsEntered.mode = "ConfigureArgs"
        /\ ArgsEntered.args_input = Remembered

\* C26: a configure flow that finds the env files the last confirmed run
\* found pre-selects exactly the files selected at that run.
C26_PreselectsLastSelection ==
    (AppRunning /\ app.mode = "Normal" /\ op.selected # <<>>
        /\ FlowStarted.env_files_list = op.selected[1].found) =>
            FlowStarted.env_selected_files = op.selected[1].chosen

\* the script list Enter acts on in Normal mode, as an Option
ScriptList ==
    IF app.active_tab = "Scripts"
    THEN <<[items |-> scripts, filtered |-> filtered_indices,
            selected |-> app.selected_index]>>
    ELSE IF app.package_mode.kind = "SelectingScript"
    THEN <<[items |-> app.pkg_script_sortable, filtered |-> app.pkg_script_filtered_indices,
            selected |-> app.pkg_script_selected_index]>>
    ELSE <<>>

\* the executions the store `recs` holds for `key`
Executions(recs, key) ==
    IF \E i \in 1..Len(recs) : recs[i].key = key
    THEN recs[CHOOSE i \in 1..Len(recs) : recs[i].key = key].count
    ELSE 0

\* C27: Enter in Normal mode on a script list returns RunScript naming the
\* script at the selected row of the filtered list, and the store then holds
\* one execution more for that script's key; on an empty filtered list it
\* returns Continue and leaves the store as it is.
C27_EnterRunsSelectedOnce ==
    (AppRunning /\ app.mode = "Normal" /\ ScriptList # <<>>) =>
        LET list == ScriptList[1]
            r == Handled(Key("Enter"))
        IN  IF list.filtered = <<>>
            THEN r.action = ActionContinue /\ r.self.recents = recents
            ELSE LET script == list.items[list.filtered[list.selected + 1] + 1]
                 IN  /\ list.selected < Len(list.filtered)
                     /\ r.action.type = "RunScript"
                     /\ r.action.script_name = script.name
                     /\ Executions(r.self.recents, script.key)
                            = Executions(recents, script.key) + 1

\* what the file at `path` defines
Defines(path) == load_single_env_file(EnvContents[path])

\* the env files handed to the loader that could be read and define `v`
Defining(v) ==
    {i \in 1..Len(op.action.env_files) :
        /\ op.action.env_files[i] \in op.env[1].readable
        /\ v \in DOMAIN Defines(op.action.env_files[i])}

\* the scope of the file at `path` in the list the wizard showed
ScopeOf(path) ==
    LET files == all_files(op.selected[1].found[1])
    IN  files[CHOOSE i \in 1..Len(files) : files[i].path = path].scope

\* C29: a configured run hands the selected env files to the loader, root
\* files before package files; the script receives, for every variable a
\* readable file defines, the value of the last such file, and nothing else.
C29_PackageOverridesRoot ==
    (op.name = "run_script" /\ op.env # <<>>) =>
        LET files == op.action.env_files
            received == op.env[1].vars
        IN  /\ Range(files) = op.selected[1].chosen
            /\ \A i \in 1..Len(files) : \A j \in 1..Len(files) :
                    (ScopeOf(files[i]) = "Root" /\ ScopeOf(files[j]) = "Package") => i < j
            /\ DOMAIN received = {v \in {<<86>>, <<82>>} : Defining(v) # {}}
            /\ \A v \in DOMAIN received :
                    LET last == CHOOSE i \in Defining(v) : \A j \in Defining(v) : j <= i
                    IN  received[v] = Defines(files[last])[v]

\* a root file and a package file that both define V were selected and
\* read, and the script received the package file's value
C29_Witness ==
    /\ op.name = "run_script"
    /\ op.env # <<>>
    /\ op.action.env_files = <<join(RepoRoot, ".env"), join(PkgDir, ".env")>>
    /\ op.env[1].readable = EnvPaths
    /\ op.env[1].vars[<<86>>] = <<112>>
    /\ op.env[1].vars[<<82>>] = <<49>>

\* C31: in every mode Ctrl+C returns Quit, and it changes nothing of the App:
\* in ConfigureArgs the args input does not receive the character 'c'.
C31_CtrlCQuits ==
    AppRunning =>
        /\ Handled(CtrlC).action = ActionQuit
        /\ Handled(CtrlC).self = render(Self)

\* the session was quit from ConfigureArgs, where Ctrl+C is the only key that
\* quits, with arguments typed
C31_Witness ==
    /\ op.name = "quit"
    /\ app.mode = "ConfigureArgs"
    /\ app.args_input = <<120>>

\* C32: in every state reached through key events args_cursor_pos is at most
\* the length of args_input.
C32_CursorWithinInput ==
    AppRunning => app.args_cursor_pos <= Len(app.args_input)

\* the keys the App has given to scripts, and the keys of the records the
\* project's store held before the sessions
ScriptKeys == {p.key : p \in op.keyed}
StoredKeys == {FullStore[i].key : i \in 1..Len(FullStore)}

\* C33: a RunScript action names a script of the manifest in its working
\* directory, and the store holds no record under a key that no script has.
C33_RunNamesAScript ==
    (op.name = "run_script") =>
        /\ op.action.script_name \in Range(load_scripts(op.action.cwd))
        /\ \A i \in 1..Len(recents) : recents[i].key \in ScriptKeys \cup StoredKeys

\* the list of the App `self` that the screen shows, if any: what it is of,
\* the query it was filtered by, and where the selection and the window are
ActiveList(self) ==
    IF self.active_tab = "Scripts"
    THEN <<[of |-> "scripts", items |-> self.scripts, query |-> self.query,
            filtered |-> self.filtered_indices, selected |-> self.selected_index,
            offset |-> self.scroll_offset]>>
    ELSE IF self.package_mode.kind = "SelectingScript"
    THEN <<[of |-> "scripts", items |-> self.pkg_script_sortable,
            query |-> self.pkg_script_query,
            filtered |-> self.pkg_script_filtered_indices,
            selected |-> self.pkg_script_selected_index,
            offset |-> self.pkg_script_scroll_offset]>>
    ELSE <<[of |-> "packages", items |-> self.workspace_packages,
            query |-> self.pkg_query,
            filtered |-> self.pkg_filtered_indices,
            selected |-> self.pkg_selected_index,
            offset |-> self.pkg_scroll_offset]>>

\* C34: whatever key is handled in Normal mode, as long as the list stays on
\* screen, the filtered indices of the script list shown afterwards are
\* sort_scripts of its scripts, the favorites, the recents and its query, and
\* a key that changed the query of the list shown or the favorites leaves the
\* selected index and the scroll offset of that list at 0.
C34_ListInSync ==
    (AppRunning /\ app.mode = "Normal") =>
        \A key \in Keys :
            LET before == ActiveList(render(Self))[1]
                self == Handled(key).self
                after == ActiveList(self)[1]
            IN  (Handled(key).action = ActionContinue /\ self.mode = "Normal") =>
                    /\ (after.of = "scripts") =>
                            after.filtered = sort_scripts(after.items, self.favorites,
                                                          self.recents, now, after.query)
                    /\ (after.query # before.query \/ self.favorites # favorites) =>
                            after.selected = 0 /\ after.offset = 0

\* the second script is selected and scrolled to, and typing a character
\* puts the selection and the window back on the first row
C34_Witness ==
    /\ op.name = "key"
    /\ app.mode = "Normal"
    /\ app.active_tab = "Scripts"
    /\ app.selected_index = 1
    /\ app.scroll_offset = 1
    /\ Handled(Char(113)).self.query = "q"
    /\ Handled(Char(113)).self.filtered_indices # filtered_indices
    /\ Handled(Char(113)).self.scroll_offset = 0

\* `selected` is a position of `filtered`, or 0 when there is none
ValidSelection(filtered, selected) ==
    IF Len(filtered) = 0 THEN selected = 0 ELSE selected < Len(filtered)

\* the three lists of the App `self`
SelectionsValid(self) ==
    /\ ValidSelection(self.filtered_indices, self.selected_index)
    /\ ValidSelection(self.pkg_filtered_indices, self.pkg_selected_index)
    /\ ValidSelection(self.pkg_script_filtered_indices, self.pkg_script_selected_index)

\* C35: in every state of a session, and after any further key, the selected
\* index of the root scripts, of the packages and of the package scripts is a
\* position of that list's filtered indices, or 0 when they are empty; in
\* Normal mode Up selects the row before and Down the row after the selected
\* one in the list shown, around the ends, and neither changes an empty list.
C35_SelectionValid ==
    AppRunning =>
        /\ SelectionsValid(Self)
        /\ \A key \in Keys : SelectionsValid(Handled(key).self)
        /\ (app.mode = "Normal") =>
                LET shown == ActiveList(render(Self))[1]
                    n == Len(shown.filtered)
                    up == ActiveList(Handled(Key("Up")).self)[1]
                    down == ActiveList(Handled(Key("Down")).self)[1]
                IN  IF n = 0 THEN up = shown /\ down = shown
                    ELSE /\ up.selected = (shown.selected + n - 1) % n
                         /\ down.selected = (shown.selected + 1) % n
                         /\ up.filtered = shown.filtered
                         /\ down.filtered = shown.filtered

\* the last of two root scripts is selected: Down goes around to the first,
\* and from the first Up goes around to the last
C35_Witness ==
    /\ op.name = "key"
    /\ app.mode = "Normal"
    /\ app.active_tab = "Scripts"
    /\ Len(filtered_indices) = 2
    /\ app.selected_index = 1
    /\ Handled(Key("Down")).self.selected_index = 0
    /\ Handled(Key("Up")).self.selected_index = 0
    /\ handle_key(Handled(Key("Down")).self, Key("Up"), now, Dirs, disk).self.selected_index = 1

\* what decides which script the App `self` has selected
Selection(self) ==
    [active_tab |-> self.active_tab,
     package_mode |-> self.package_mode,
     query |-> <<self.query, self.pkg_query, self.pkg_script_query>>,
     filtered |-> <<self.filtered_indices, self.pkg_filtered_indices,
                    self.pkg_script_filtered_indices>>,
     selected |-> <<self.selected_index, self.pkg_selected_index,
                    self.pkg_script_selected_index>>]

\* the script the App `self` would configure and run
Chosen(self) ==
    [name |-> get_current_script_name(self), key |-> get_current_script_key(self),
     cwd |-> get_current_cwd(self)]

\* C36: Tab in Normal mode and every key in ConfigureEnv, ConfigureArgs and
\* ConfirmExecution leave the active tab, the package mode, the queries, the
\* filtered lists and the selected indices as they are, and with them the
\* name, key and working directory of the selected script; Enter in
\* ConfirmExecution runs the script of that name in that directory.
C36_WizardKeepsSelection ==
    AppRunning =>
        /\ \A key \in Keys :
                (app.mode \in WizardModes \/ key = Key("Tab")) =>
                    /\ Selection(Handled(key).self) = Selection(Self)
                    /\ Chosen(Handled(key).self) = Chosen(Self)
        /\ (app.mode = "ConfirmExecution") =>
                /\ Handled(Key("Enter")).action.type = "RunScript"
                /\ Handled(Key("Enter")).action.script_name = Chosen(Self).name
                /\ Handled(Key("Enter")).action.cwd = Chosen(Self).cwd

\* the wizard has come to its last step for the script of a workspace
\* package, chosen on the Packages tab
C36_Witness ==
    /\ op.name = "key"
    /\ app.mode = "ConfirmExecution"
    /\ app.active_tab = "Packages"
    /\ app.package_mode.kind = "SelectingScript"
    /\ current_script(Self) # <<>>
    /\ Handled(Key("Enter")).action.cwd = PkgDir
    /\ Handled(Key("Enter")).action.cwd # app.nearest_pkg

\* the App after Tab and Enter at each of the three steps of the wizard
ConfiguredRun ==
    LET env == Handled(Key("Tab")).self
        args == handle_key(env, Key("Enter"), now, Dirs, disk).self
        confirm == handle_key(args, Key("Enter"), now, Dirs, disk).self
    IN  handle_key(confirm, Key("Enter"), now, Dirs, disk)

Stored(self) ==
    [script_configs |-> self.script_configs,
     global_env_config |-> self.global_env_config,
     args_history |-> self.args_history,
     recents |-> self.recents,
     favorites |-> self.favorites]

\* C38: Tab in Normal mode and every key of the wizard other than Enter in
\* ConfirmExecution leave script_configs, global_env_config, args_history,
\* recents and favorites as they are and write no file, so that the Esc
\* presses that lead from any step of the wizard back to Normal mode end with
\* the data that was there when Tab was pressed.
C38_CancelKeepsData ==
    AppRunning =>
        /\ \A key \in Keys :
                (\/ app.mode = "Normal" /\ key = Key("Tab")
                 \/ app.mode \in {"ConfigureEnv", "ConfigureArgs"}
                 \/ app.mode = "ConfirmExecution" /\ key # Key("Enter")) =>
                    /\ Stored(Handled(key).self) = Stored(Self)
                    /\ Handled(key).files = disk
        /\ (app.mode \in WizardModes) =>
                \A n \in 1..3 : Stored(EscPresses(Self, n).self) = Stored(Self)

\* back in Normal mode in the first session, after arguments were typed in
\* the wizard and the wizard was left with Esc: nothing is remembered
C38_Witness ==
    /\ op.name = "key"
    /\ op.session = 1
    /\ app.mode = "Normal"
    /\ app.args_input = <<120>>
    /\ app.script_configs = <<>>
    /\ args_history.entries = <<>>
    /\ recents = <<>>
    /\ disk.script_configs = Missing

\* the place of a history selection from newest to oldest: no selection (the
\* arguments being written) comes before entry 0
Age(index) == IF index = <<>> THEN 0 ELSE index[1] + 1

\* the selected entry of the App `self` has a place in its history and is
\* what the input holds
SelectedEntryShown(self) ==
    (self.args_history_index # <<>>) =>
        /\ self.args_history_index[1] < Len(self.args_history.entries)
        /\ self.args_input = self.args_history.entries[self.args_history_index[1] + 1]

====
